---- MODULE Spec2Model ----
(***************************************************************************)
(* A model of the retrieval pipeline of prepvista's ai-backend:            *)
(*   pdf_processor.py      PDFProcessor.split_text_into_chunks             *)
(*   embedding_service.py  EmbeddingService.generate_embeddings_batch      *)
(*   vector_storage.py     VectorStorageService (the "VectorEmbedding"     *)
(*                         table behind psycopg2 transactions)             *)
(*   rag_service.py        RAGService.retrieve_relevant_context and        *)
(*                         generate_contextual_response on one asyncio     *)
(*                         event loop                                      *)
(* and of three parts beside it:                                           *)
(*   pdf_processor.py      PDFProcessor.clean_text                         *)
(*   vector_storage.py     VectorStorageService.get_connection around the  *)
(*                         body of each operation                          *)
(*   main.py               the practice sessions kept in active_sessions   *)
(* Each part has its own specification (SpecChunk, SpecEmbed, SpecStore,   *)
(* SpecRag, SpecSearch for one search or retrieval call, SpecDelete for    *)
(* delete_embeddings_by_document, SpecClean, SpecConn, SpecSession) over   *)
(* the one tuple of variables; a specification leaves the variables of the *)
(* other parts at their initial values.                                    *)
(***************************************************************************)
EXTENDS Integers, Sequences, FiniteSets, TLC

VARIABLES
    \* ---- PDFProcessor.split_text_into_chunks
    chunk_size,        \* self.chunk_size
    chunk_overlap,     \* self.chunk_overlap
    sentences,         \* the list re.split returns, each sentence a sequence of words
    special_at,        \* the first sentence that holds the text of a special token
                       \*   of the encoding, which encode refuses; 0 when none does
    sent_i,            \* position of the for loop in sentences (next sentence to take)
    chunks,            \* chunks appended so far
    current_chunk,     \* the words of current_chunk
    current_tokens,    \* current_tokens
    overlap_text,      \* overlap_text, the words _get_overlap_text last returned
    chunk_index,       \* chunk_index
    cpc,               \* "loop" | "done"
    \* ---- EmbeddingService.generate_embeddings_batch
    texts,             \* the texts argument
    batch_size,        \* the batch_size argument
    batch_i,           \* i of `for i in range(0, len(texts), batch_size)` (0-based)
    batch_embeddings,  \* batch_embeddings of the batch being processed
    all_embeddings,    \* all_embeddings
    embed_raised,      \* history: the positions of texts whose embed_content call raised
    epc,               \* "batch" | "done"
    \* ---- VectorStorageService: the "VectorEmbedding" table and the call in progress
    table,             \* the committed rows of "VectorEmbedding", in heap order
    spc,               \* "idle" | "batch": store_embeddings_batch inside its loop
    txn,               \* the open transaction of store_embeddings_batch:
                       \*   rows (its view of the table), aborted, stored_count, n
    last_call,         \* the last call that returned: op, ret, connected
    batch_wf,          \* history: chunk id -> payload of its last well-formed entry
                       \*   in the batch, or NoPayload
    batch_counted,     \* history: chunk id -> payload of its last entry counted in
                       \*   stored_count, or NoPayload
    batch_durable,     \* history: number of entries of the batch whose INSERT committed
    last_write,        \* history: chunk id -> payload of its last committed write
    overwritten,       \* history: chunk ids whose row a committed write has replaced
    \* ---- RAGService on the asyncio event loop, one request per task
    ai_model,          \* self.ai_model is set
    loop_owner,        \* the task the event loop thread is running, or "none"
    rpc,               \* task -> "idle" | "embedding" | "searching" | "awaiting"
                       \*         | "shutdown_wait" | "done"
    req,               \* task -> the arguments of generate_contextual_response
    ctx,               \* task -> context_chunks, what retrieve_relevant_context returned
    infra_failure,     \* history: task -> "none" | "embedding" | "store"
    gen,               \* task -> the generate_content call in the executor thread:
                       \*         "none" | "running" | "text" | "empty" | "raised"
    timed_out,         \* task -> future.result(timeout=30.0) raised TimeoutError
    gen_calls,         \* history: task -> number of generate_content calls submitted
    resp,              \* task -> the dictionary returned
    \* ---- one call of search_similar_embeddings or retrieve_relevant_context
    search,            \* the last call that returned: its arguments and its result
    \* ---- the database around the rows of "VectorEmbedding"
    schema,            \* the table "VectorEmbedding": exists, columns, indexes
    doc_chunks,        \* the ids of the rows of "DocumentChunk"
    admin_call,        \* the last create_vector_tables or
                       \*   delete_embeddings_by_document call that returned
    \* ---- PDFProcessor.clean_text
    raw_text,          \* the text argument, a sequence of characters
    cleaned_text,      \* the string returned
    clean_pc,          \* "start" | "done"
    \* ---- VectorStorageService.get_connection around the body of an operation
    conn_op,           \* the operation in progress, or "none"
    conn_pc,           \* "idle" | "connect" | "body" | "except" | "finally"
    conn,              \* the local conn of get_connection: "None" | "open" | "closed"
    conn_exit,         \* how the with block is being left: "none" | "return"
                       \*   | "early_return" | "exception" | "connect_failed"
    open_conns,        \* the number of connections open to the database
    conn_log,          \* history: [op, exit] of the operations that returned
    \* ---- main.py: the practice sessions
    active_sessions,   \* active_sessions: session id -> session_data
    created,           \* the number of session ids uuid4 has given out
    now,               \* datetime.now(), in seconds
    reply,             \* the response to the last request
    first_result       \* history: session id -> the first SessionResult
                       \*   complete_session returned for it

chunkVars == <<chunk_size, chunk_overlap, sentences, special_at, sent_i, chunks,
               current_chunk, current_tokens, overlap_text, chunk_index, cpc>>

embedVars == <<texts, batch_size, batch_i, batch_embeddings, all_embeddings,
               embed_raised, epc>>

storeVars == <<table, spc, txn, last_call, batch_wf, batch_counted, batch_durable,
               last_write, overwritten>>

ragVars == <<ai_model, loop_owner, rpc, req, ctx, infra_failure, gen, timed_out,
             gen_calls, resp>>

searchVars == <<search>>

catalogVars == <<schema, doc_chunks, admin_call>>

cleanVars == <<raw_text, cleaned_text, clean_pc>>

connVars == <<conn_op, conn_pc, conn, conn_exit, open_conns, conn_log>>

sessionVars == <<active_sessions, created, now, reply, first_result>>

\* the variables of the parts that use neither the store nor the catalog
apiVars == <<cleanVars, connVars, sessionVars>>

vars == <<chunkVars, embedVars, storeVars, ragVars, searchVars, catalogVars,
          apiVars>>

\* what the actions of one part leave alone: the variables of the other parts
notChunkVars == <<embedVars, storeVars, ragVars, searchVars, catalogVars, apiVars>>
notEmbedVars == <<chunkVars, storeVars, ragVars, searchVars, catalogVars, apiVars>>
notStoreVars == <<chunkVars, embedVars, ragVars, searchVars, catalogVars, apiVars>>
notRagVars == <<chunkVars, embedVars, storeVars, searchVars, catalogVars, apiVars>>
notSearchVars == <<chunkVars, embedVars, storeVars, ragVars, catalogVars, apiVars>>
retrievalVars == <<chunkVars, embedVars, storeVars, ragVars, searchVars, catalogVars>>
notCleanVars == <<retrievalVars, connVars, sessionVars>>
notConnVars == <<retrievalVars, cleanVars, sessionVars>>
notSessionVars == <<retrievalVars, cleanVars, connVars>>

(***************************************************************************)
(* Generic helpers.                                                        *)
(***************************************************************************)
Min(a, b) == IF a <= b THEN a ELSE b

(***************************************************************************)
(* Embedding vectors.  A vector is kept as its length (dim) and a          *)
(* direction (val); Python's None is NoneValue, a list [] has dim = 0.     *)
(***************************************************************************)
EmbeddingDim == 768
Vals == {1, 2}
NoneValue == [kind |-> "none", dim |-> 0, val |-> 0]
Vector(d, v) == [kind |-> "vec", dim |-> d, val |-> v]
\* `not embedding` of Python: None and the empty list
Falsy(e) == e.kind = "none" \/ e.dim = 0

RECURSIVE SumTok(_)
\* len(self.encoding.encode(s)) of a sequence of words: the token counts of
\* the words add up (cl100k_base pre-tokenises at word boundaries).
SumTok(ws) == IF ws = << >> THEN 0 ELSE ws[1].tok + SumTok(Tail(ws))

(***************************************************************************)
(* Chunk ids, and what a write carries: the vector and the model tag.      *)
(***************************************************************************)
ChunkIds == {"c1", "c2"}
Models == {"text-embedding-004", "text-embedding-3-small"}
Payloads == { [val |-> 1, model |-> "text-embedding-004"],
              [val |-> 2, model |-> "text-embedding-3-small"] }
NoPayload == [val |-> 0, model |-> "none"]
NoTxn == [rows |-> << >>, aborted |-> FALSE, stored_count |-> 0, n |-> 0]
NoCall == [op |-> "none", ret |-> 0, ok |-> FALSE, connected |-> FALSE, dim |-> 0]

(***************************************************************************)
(* The requests served concurrently, and the documents the chunks belong   *)
(* to ("DocumentChunk"."documentId", "Document"."agentId").                *)
(***************************************************************************)
Tasks == {"r1", "r2"}
Agents == {"a1", "a2"}
Docs == {"d1", "d2", "d3"}
\* the chunks the search and the deletion are exercised on: two more than
\* the writes use, so that a document has two chunks and an agent two documents
SearchChunkIds == ChunkIds \cup {"c3", "c4"}
ChunkDoc ==
    [c \in SearchChunkIds |->
        CASE c = "c1" -> "d1" [] c = "c2" -> "d2" [] c = "c3" -> "d1" [] c = "c4" -> "d3"]
DocAgent == [d \in Docs |-> IF d = "d2" THEN "a2" ELSE "a1"]
NoReq == [query |-> 0, agent_id |-> "", document_id |-> "", max_context_chunks |-> 0]
NoResp == [answer |-> [text |-> "none", context |-> << >>]]
NoSearch ==
    [op |-> "none", query |-> 0, limit |-> 0, agent_id |-> "", document_id |-> "",
     threshold |-> 0, failed |-> FALSE, results |-> << >>]

(***************************************************************************)
(* The table "VectorEmbedding" as the database catalog holds it.           *)
(***************************************************************************)
NoSchema == [exists |-> FALSE, columns |-> {}, indexes |-> {}]
\* the columns the INSERT of store_embedding and the SELECT of
\* search_similar_embeddings name
StatementColumns == {"id", "chunkId", "embedding", "model", "createdAt"}
\* a table with these columns, made outside create_vector_tables
MigratedSchema == [exists |-> TRUE, columns |-> StatementColumns, indexes |-> {}]
NoAdminCall ==
    [op |-> "none", ret |-> FALSE, connected |-> FALSE, document_id |-> "",
     before |-> NoSchema, rows_before |-> << >>, chunks_before |-> {}]

\* no request answered yet
NoReply ==
    [op |-> "none", status |-> 0, detail |-> "", session_id |-> 0,
     exam_type |-> "", topic |-> "", added |-> {}, questions |-> 0,
     time_limit |-> 0, correct_answers |-> 0, wrong_answers |-> << >>,
     completed |-> FALSE, was_completed |-> FALSE]

(***************************************************************************)
(* The state of each part before any call: what the specifications of the  *)
(* other parts keep it at.                                                 *)
(***************************************************************************)
IdleChunk ==
    /\ chunk_size = 1
    /\ chunk_overlap = 0
    /\ sentences = << >>
    /\ special_at = 0
    /\ sent_i = 1
    /\ chunks = << >>
    /\ current_chunk = << >>
    /\ current_tokens = 0
    /\ overlap_text = << >>
    /\ chunk_index = 0
    /\ cpc = "done"

IdleEmbed ==
    /\ texts = << >>
    /\ batch_size = 1
    /\ batch_i = 0
    /\ batch_embeddings = << >>
    /\ all_embeddings = << >>
    /\ embed_raised = {}
    /\ epc = "done"

\* the vector store right after the schema exists: no row, no call made
IdleStore ==
    /\ table = << >>
    /\ spc = "idle"
    /\ txn = NoTxn
    /\ last_call = NoCall
    /\ batch_wf = [c \in ChunkIds |-> NoPayload]
    /\ batch_counted = [c \in ChunkIds |-> NoPayload]
    /\ batch_durable = 0
    /\ last_write = [c \in ChunkIds |-> NoPayload]
    /\ overwritten = {}

\* no search made
IdleSearch == search = NoSearch

\* the table exists with the columns the statements name; every chunk of
\* every document has its row in "DocumentChunk"
IdleCatalog ==
    /\ schema = MigratedSchema
    /\ doc_chunks = SearchChunkIds
    /\ admin_call = NoAdminCall

\* clean_text not called
IdleClean ==
    /\ raw_text = << >>
    /\ cleaned_text = << >>
    /\ clean_pc = "done"

\* no operation of the vector store in progress, none made
IdleConn ==
    /\ conn_op = "none"
    /\ conn_pc = "idle"
    /\ conn = "None"
    /\ conn_exit = "none"
    /\ open_conns = 0
    /\ conn_log = << >>

\* the server right after start: active_sessions = {}
IdleSession ==
    /\ active_sessions = << >>
    /\ created = 0
    /\ now = 0
    /\ reply = NoReply
    /\ first_result = << >>

\* the parts that use neither the store nor the catalog, before any call
IdleApi == IdleClean /\ IdleConn /\ IdleSession

\* the RAG service with no request started
IdleRag ==
    /\ ai_model = FALSE
    /\ loop_owner = "none"
    /\ rpc = [t \in Tasks |-> "idle"]
    /\ req = [t \in Tasks |-> NoReq]
    /\ ctx = [t \in Tasks |-> << >>]
    /\ infra_failure = [t \in Tasks |-> "none"]
    /\ gen = [t \in Tasks |-> "none"]
    /\ timed_out = [t \in Tasks |-> FALSE]
    /\ gen_calls = [t \in Tasks |-> 0]
    /\ resp = [t \in Tasks |-> NoResp]

(***************************************************************************)
(* PDFProcessor: the text after clean_text is a sequence of words          *)
(* separated by single spaces.  A word is [id, tok, end]: its position in  *)
(* the text, its number of tokens, and whether it ends with . ! or ?       *)
(***************************************************************************)
MaxWords == 4
MaxTok == 2
MaxChunkSize == 3
\* values of chunk_overlap: none, below one word (3 // 4 = 0), one word, two words
OverlapChoices == {0, 3, 4, 8}

WordKinds == [tok : 1..MaxTok, end : BOOLEAN]

Texts ==
    UNION { { [i \in 1..n |-> [id |-> i, tok |-> f[i].tok, end |-> f[i].end]] :
                f \in [1..n -> WordKinds] } : n \in 0..MaxWords }

RECURSIVE SplitFrom(_, _, _)
\* re.split(r'(?<=[.!?])\s+', cleaned_text): a new sentence starts after every
\* word that ends with . ! or ? and is followed by whitespace; the text with
\* no such place (the empty text too) is one sentence.
SplitFrom(ws, i, cur) ==
    IF i > Len(ws) THEN << cur >>
    ELSE IF ws[i].end /\ i < Len(ws)
         THEN << Append(cur, ws[i]) >> \o SplitFrom(ws, i + 1, << >>)
         ELSE SplitFrom(ws, i + 1, Append(cur, ws[i]))

SplitSentences(ws) == SplitFrom(ws, 1, << >>)

\* words[-(k):] of Python: the last k words, and the whole list for k = 0
\* (words[-0:] is words[0:]).
LastWords(ws, k) ==
    IF k = 0 THEN ws ELSE SubSeq(ws, Len(ws) - k + 1, Len(ws))

\* _get_overlap_text(text) with self.chunk_overlap = overlap
GetOverlapText(ws, overlap) ==
    IF Len(ws) <= overlap \div 4 THEN ws
    ELSE LastWords(ws, overlap \div 4)

\* the dictionary appended to chunks
ChunkRecord(content, index, tokens) ==
    [content |-> content, chunk_index |-> index, token_count |-> tokens]

\* the seed of the chunk started after closing one, with the sentence added:
\* current_chunk = overlap_text + " " + sentence
SeededChunkWithoutOverlap(cur, overlap, sentence) == sentence
SeededChunk(cur, overlap, sentence) == GetOverlapText(cur, overlap) \o sentence

InitChunk ==
    /\ chunk_size \in 1..MaxChunkSize
    /\ chunk_overlap \in OverlapChoices
    /\ \E t \in Texts : sentences = SplitSentences(t)
    /\ special_at \in { k \in 0..Len(sentences) : k > 0 => sentences[k] # << >> }
    /\ sent_i = 1
    /\ chunks = << >>
    /\ current_chunk = << >>
    /\ current_tokens = 0
    /\ overlap_text = << >>
    /\ chunk_index = 0
    /\ cpc = "loop"

\* one iteration of `for sentence in sentences` taking the if branch:
\* the current chunk is saved and the next one starts with the overlap
CloseChunk ==
    /\ cpc = "loop"
    /\ sent_i <= Len(sentences)
    /\ sent_i # special_at
    /\ LET sentence == sentences[sent_i]
           sentence_tokens == SumTok(sentence)
       IN /\ current_tokens + sentence_tokens > chunk_size
          /\ current_chunk # << >>
          /\ chunks' = Append(chunks,
                         ChunkRecord(current_chunk, chunk_index, current_tokens))
          /\ overlap_text' = GetOverlapText(current_chunk, chunk_overlap)
          /\ current_chunk' = SeededChunk(current_chunk, chunk_overlap, sentence)
          /\ current_tokens' = SumTok(current_chunk')
          /\ chunk_index' = chunk_index + 1
    /\ sent_i' = sent_i + 1
    /\ UNCHANGED <<chunk_size, chunk_overlap, sentences, special_at, cpc>>
    /\ UNCHANGED notChunkVars

\* one iteration taking the else branch: the sentence joins the current chunk
AddSentence ==
    /\ cpc = "loop"
    /\ sent_i <= Len(sentences)
    /\ sent_i # special_at
    /\ LET sentence == sentences[sent_i]
           sentence_tokens == SumTok(sentence)
       IN /\ ~(current_tokens + sentence_tokens > chunk_size
               /\ current_chunk # << >>)
          /\ current_chunk' = current_chunk \o sentence
          /\ current_tokens' = current_tokens + sentence_tokens
    /\ sent_i' = sent_i + 1
    /\ UNCHANGED <<chunk_size, chunk_overlap, sentences, special_at, chunks,
                   overlap_text, chunk_index, cpc>>
    /\ UNCHANGED notChunkVars

\* after the loop: the last chunk is added if it has content, and chunks returned
LastChunk ==
    /\ cpc = "loop"
    /\ sent_i > Len(sentences)
    /\ chunks' = IF current_chunk # << >>
                 THEN Append(chunks,
                        ChunkRecord(current_chunk, chunk_index, current_tokens))
                 ELSE chunks
    /\ cpc' = "done"
    /\ UNCHANGED <<chunk_size, chunk_overlap, sentences, special_at, sent_i,
                   current_chunk, current_tokens, overlap_text, chunk_index>>
    /\ UNCHANGED notChunkVars

\* self.encoding.encode(sentence) raises ValueError: the sentence holds the
\* text of a special token (clean_text keeps < | and >), and encode is
\* called with the default disallowed_special="all".  The except of
\* split_text_into_chunks logs and returns [].
EncodeRaises ==
    /\ cpc = "loop"
    /\ sent_i = special_at
    /\ chunks' = << >>
    /\ cpc' = "done"
    /\ UNCHANGED <<chunk_size, chunk_overlap, sentences, special_at, sent_i,
                   current_chunk, current_tokens, overlap_text, chunk_index>>
    /\ UNCHANGED notChunkVars

NextChunk == CloseChunk \/ AddSentence \/ LastChunk \/ EncodeRaises

InitSpecChunk ==
    InitChunk /\ IdleEmbed /\ IdleStore /\ IdleRag /\ IdleSearch /\ IdleApi /\ IdleCatalog

SpecChunk == InitSpecChunk /\ [][NextChunk]_vars

(***************************************************************************)
(* EmbeddingService.generate_embeddings_batch.  A text is named by the     *)
(* direction of its embedding; the external genai.embed_content either     *)
(* returns the vector of the text or raises.                               *)
(***************************************************************************)
MaxTexts == 3
MaxBatchSize == 2

TextSeqs == UNION { [1..n -> Vals] : n \in 0..MaxTexts }

\* result['embedding'] of a successful genai.embed_content call
EmbedContent(text) == Vector(EmbeddingDim, text)

\* batch_embeddings.append(result['embedding'])
AppendEmbedding(batch, text) == Append(batch, EmbedContent(text))

\* the except branch of the inner try: batch_embeddings.append(None)
AppendFailureDropped(batch) == batch
AppendFailure(batch) == Append(batch, NoneValue)

\* batch_texts = texts[i:i + batch_size]
BatchTexts == SubSeq(texts, batch_i + 1, Min(batch_i + batch_size, Len(texts)))

InitEmbed ==
    /\ texts \in TextSeqs
    /\ batch_size \in 1..MaxBatchSize
    /\ batch_i = 0
    /\ batch_embeddings = << >>
    /\ all_embeddings = << >>
    /\ embed_raised = {}
    /\ epc = "batch"

\* one iteration of `for text in batch_texts`: embed_content returns
EmbedTextOk ==
    /\ epc = "batch"
    /\ batch_i < Len(texts)
    /\ Len(batch_embeddings) < Len(BatchTexts)
    /\ batch_embeddings' =
           AppendEmbedding(batch_embeddings, BatchTexts[Len(batch_embeddings) + 1])
    /\ UNCHANGED <<texts, batch_size, batch_i, all_embeddings, embed_raised, epc>>
    /\ UNCHANGED notEmbedVars

\* one iteration of `for text in batch_texts`: embed_content raises
EmbedTextRaises ==
    /\ epc = "batch"
    /\ batch_i < Len(texts)
    /\ Len(batch_embeddings) < Len(BatchTexts)
    /\ embed_raised' = embed_raised \cup {batch_i + Len(batch_embeddings) + 1}
    /\ batch_embeddings' = AppendFailure(batch_embeddings)
    /\ UNCHANGED <<texts, batch_size, batch_i, all_embeddings, epc>>
    /\ UNCHANGED notEmbedVars

\* the inner loop is over: all_embeddings.extend(batch_embeddings), next i
ExtendAll ==
    /\ epc = "batch"
    /\ batch_i < Len(texts)
    /\ Len(batch_embeddings) >= Len(BatchTexts)
    /\ all_embeddings' = all_embeddings \o batch_embeddings
    /\ batch_embeddings' = << >>
    /\ batch_i' = batch_i + batch_size
    /\ UNCHANGED <<texts, batch_size, embed_raised, epc>>
    /\ UNCHANGED notEmbedVars

\* range(0, len(texts), batch_size) is exhausted: return all_embeddings
ReturnAll ==
    /\ epc = "batch"
    /\ batch_i >= Len(texts)
    /\ epc' = "done"
    /\ UNCHANGED <<texts, batch_size, batch_i, batch_embeddings, all_embeddings,
                   embed_raised>>
    /\ UNCHANGED notEmbedVars

NextEmbed == EmbedTextOk \/ EmbedTextRaises \/ ExtendAll \/ ReturnAll

InitSpecEmbed ==
    InitEmbed /\ IdleChunk /\ IdleStore /\ IdleRag /\ IdleSearch /\ IdleApi /\ IdleCatalog

SpecEmbed == InitSpecEmbed /\ [][NextEmbed]_vars

(***************************************************************************)
(* C5. generate_embeddings_batch on N texts returns exactly N results,     *)
(* result i being the vector of text i when its embedding call succeeded   *)
(* and None when it raised, for every set of failing positions and every   *)
(* batch_size >= 1.                                                        *)
(***************************************************************************)
C5_BatchPositional ==
    epc = "done" =>
        /\ Len(all_embeddings) = Len(texts)
        /\ \A k \in 1..Len(texts) :
               all_embeddings[k] = IF k \in embed_raised
                                   THEN NoneValue
                                   ELSE EmbedContent(texts[k])

\* a call over more than one batch returned with one failure that is not last
C5_FailureInsideBatch ==
    /\ epc = "done"
    /\ Len(texts) > batch_size
    /\ \E k \in embed_raised : k < Len(texts) /\ (k + 1) \notin embed_raised


(***************************************************************************)
(* VectorStorageService.  The table "VectorEmbedding" has the primary key  *)
(* id and the column embedding vector(768).  psycopg2 opens a transaction  *)
(* with the first statement of a connection: a statement that fails puts   *)
(* the transaction in the aborted state, in which every later statement    *)
(* raises and COMMIT rolls back.                                           *)
(***************************************************************************)
MaxBatch == 3

WrongDim == EmbeddingDim - 1

\* an element of embeddings_data
NoIdEntry ==
    [has_id |-> FALSE, chunk_id |-> "none", embedding |-> NoneValue, model |-> "none"]
Entry(c, e, m) ==
    [has_id |-> TRUE, chunk_id |-> c, embedding |-> e, model |-> m]

Entries ==
    {NoIdEntry}
    \cup { Entry(c, NoneValue, "text-embedding-3-small") : c \in ChunkIds }
    \cup { Entry(c, Vector(WrongDim, 1), "text-embedding-3-small") : c \in ChunkIds }
    \cup { Entry(c, Vector(EmbeddingDim, p.val), p.model) : c \in ChunkIds, p \in Payloads }

PayloadOf(e) == [val |-> e.embedding.val, model |-> e.model]

\* f"emb_{chunk_id}"
EmbId(c) == <<"emb", c>>

HasRow(rows, c) == \E k \in 1..Len(rows) : rows[k].id = EmbId(c)

\* the column type vector(768) accepts the value
FitsColumnAnyLength(e) == e.kind = "vec" /\ e.dim > 0
FitsColumn(e) == e.kind = "vec" /\ e.dim = EmbeddingDim

\* INSERT INTO "VectorEmbedding" (id, "chunkId", embedding, model) finds
\* the table and the columns it names
Writable(sc) == sc.exists /\ {"id", "chunkId", "embedding", "model"} \subseteq sc.columns

\* INSERT ... ON CONFLICT (id) DO UPDATE SET embedding = EXCLUDED.embedding,
\*                                           model = EXCLUDED.model
UpsertKeepsModel(rows, c, e, m) ==
    IF HasRow(rows, c)
    THEN [k \in 1..Len(rows) |->
            IF rows[k].id = EmbId(c)
            THEN [rows[k] EXCEPT !.embedding = e]
            ELSE rows[k]]
    ELSE Append(rows, [id |-> EmbId(c), chunkId |-> c, embedding |-> e, model |-> m])
Upsert(rows, c, e, m) ==
    IF HasRow(rows, c)
    THEN [k \in 1..Len(rows) |->
            IF rows[k].id = EmbId(c)
            THEN [rows[k] EXCEPT !.embedding = e, !.model = m]
            ELSE rows[k]]
    ELSE Append(rows, [id |-> EmbId(c), chunkId |-> c, embedding |-> e, model |-> m])

\* the entry reaches cur.execute: it has a chunk_id and a non-empty embedding
ReachesInsert(e) == e.has_id /\ ~Falsy(e.embedding)

\* cur.execute(INSERT ...) of the entry raises: in an aborted transaction
\* every statement does; otherwise the table and its columns must exist and
\* the value must fit the column
InsertRaises(t, e) == t.aborted \/ ~Writable(schema) \/ ~FitsColumn(e.embedding)

\* one iteration of `for data in embeddings_data` on the transaction t
ProcessEntry(t, e) ==
    IF ~ReachesInsert(e)
    THEN [t EXCEPT !.n = @ + 1]                                \* continue
    ELSE IF InsertRaises(t, e)
    THEN [t EXCEPT !.n = @ + 1, !.aborted = TRUE]              \* except: continue
    ELSE [t EXCEPT !.n = @ + 1,
                   !.rows = Upsert(@, e.chunk_id, e.embedding, e.model),
                   !.stored_count = @ + 1]

\* conn.commit(): COMMIT of an aborted transaction is a ROLLBACK
Commit(committed, t) == IF t.aborted THEN committed ELSE t.rows

\* store_embedding(chunk_id, embedding, model); connected: psycopg2.connect
\* succeeded.  A failing INSERT raises out of get_connection, which rolls back.
StoreEmbedding(c, e, m, connected) ==
    /\ spc = "idle"
    /\ LET ok == connected /\ Writable(schema) /\ FitsColumn(e)
           p == [val |-> e.val, model |-> m]
       IN /\ table' = IF ok THEN Upsert(table, c, e, m) ELSE table
          /\ last_call' = [op |-> "single", ret |-> 0, ok |-> ok,
                           connected |-> connected, dim |-> e.dim]
          /\ last_write' = IF ok THEN [last_write EXCEPT ![c] = p] ELSE last_write
          /\ overwritten' =
                 IF ok /\ last_write[c] \notin {NoPayload, p}
                 THEN overwritten \cup {c} ELSE overwritten
    /\ UNCHANGED <<spc, txn, batch_wf, batch_counted, batch_durable>>
    /\ UNCHANGED notStoreVars

\* store_embeddings_batch, up to the loop: get_connection() and the cursor
BatchBegin ==
    /\ spc = "idle"
    /\ spc' = "batch"
    /\ txn' = [rows |-> table, aborted |-> FALSE, stored_count |-> 0, n |-> 0]
    /\ batch_wf' = [c \in ChunkIds |-> NoPayload]
    /\ batch_counted' = [c \in ChunkIds |-> NoPayload]
    /\ batch_durable' = 0
    /\ UNCHANGED <<table, last_call, last_write, overwritten>>
    /\ UNCHANGED notStoreVars

\* store_embeddings_batch when psycopg2.connect raises: the outer except returns 0
BatchNoConnection ==
    /\ spc = "idle"
    /\ last_call' = [op |-> "batch", ret |-> 0, ok |-> FALSE, connected |-> FALSE,
                     dim |-> 0]
    /\ batch_wf' = [c \in ChunkIds |-> NoPayload]
    /\ batch_counted' = [c \in ChunkIds |-> NoPayload]
    /\ batch_durable' = 0
    /\ UNCHANGED <<table, spc, txn, last_write, overwritten>>
    /\ UNCHANGED notStoreVars

\* one iteration of the loop over embeddings_data, on the entry e
BatchEntry(e) ==
    /\ spc = "batch"
    /\ txn.n < MaxBatch
    /\ txn' = ProcessEntry(txn, e)
    /\ batch_wf' = IF ReachesInsert(e) /\ FitsColumn(e.embedding)
                   THEN [batch_wf EXCEPT ![e.chunk_id] = PayloadOf(e)]
                   ELSE batch_wf
    /\ batch_counted' = IF txn'.stored_count > txn.stored_count
                        THEN [batch_counted EXCEPT ![e.chunk_id] = PayloadOf(e)]
                        ELSE batch_counted
    /\ UNCHANGED <<table, spc, last_call, batch_durable, last_write, overwritten>>
    /\ UNCHANGED notStoreVars

\* the loop is over: conn.commit() and return stored_count
BatchCommit ==
    /\ spc = "batch"
    /\ table' = Commit(table, txn)
    /\ LET committed == ~txn.aborted
           written == { c \in ChunkIds : committed /\ batch_counted[c] # NoPayload }
       IN /\ batch_durable' = IF committed THEN txn.stored_count ELSE 0
          /\ last_write' = [c \in ChunkIds |->
                              IF c \in written THEN batch_counted[c]
                              ELSE last_write[c]]
          /\ overwritten' = overwritten \cup
                 { c \in written : last_write[c] \notin {NoPayload, batch_counted[c]} }
    /\ last_call' = [op |-> "batch", ret |-> txn.stored_count, ok |-> TRUE,
                     connected |-> TRUE, dim |-> 0]
    /\ spc' = "idle"
    /\ txn' = NoTxn
    /\ UNCHANGED <<batch_wf, batch_counted>>
    /\ UNCHANGED notStoreVars

(***************************************************************************)
(* create_vector_tables: three statements in one transaction.  DDL is      *)
(* transactional: when a statement raises, get_connection rolls back what  *)
(* the earlier ones created.                                               *)
(***************************************************************************)
\* the columns of the CREATE TABLE statement
CreatedColumns == {"id", "chunk_id", "embedding", "model", "created_at"}

\* CREATE TABLE IF NOT EXISTS "VectorEmbedding" (...)
CreateTableIfNotExists(sc) ==
    IF sc.exists THEN sc
    ELSE [exists |-> TRUE, columns |-> CreatedColumns, indexes |-> {}]

\* CREATE INDEX IF NOT EXISTS name ON "VectorEmbedding" (column) raises:
\* the name is free and the table has no such column
CreateIndexRaises(sc, name, column) ==
    name \notin sc.indexes /\ column \notin sc.columns

CreateIndexIfNotExists(sc, name) == [sc EXCEPT !.indexes = @ \cup {name}]

\* create_vector_tables(); connected: psycopg2.connect succeeded
CreateVectorTables(connected) ==
    /\ spc = "idle"
    /\ LET s1 == CreateTableIfNotExists(schema)
           raises2 == CreateIndexRaises(s1, "vector_embeddings_embedding_idx", "embedding")
           s2 == CreateIndexIfNotExists(s1, "vector_embeddings_embedding_idx")
           raises3 == CreateIndexRaises(s2, "vector_embeddings_chunk_id_idx", "chunkId")
           s3 == CreateIndexIfNotExists(s2, "vector_embeddings_chunk_id_idx")
           ok == connected /\ ~raises2 /\ ~raises3
       IN /\ schema' = IF ok THEN s3 ELSE schema             \* commit or rollback
          /\ admin_call' = [NoAdminCall EXCEPT !.op = "create", !.ret = ok,
                                               !.connected = connected,
                                               !.before = schema]
    /\ UNCHANGED doc_chunks
    /\ UNCHANGED <<chunkVars, embedVars, storeVars, ragVars, searchVars, apiVars>>

SingleInputs ==
    { Entry(c, Vector(EmbeddingDim, p.val), p.model) : c \in ChunkIds, p \in Payloads }
    \cup { Entry(c, Vector(WrongDim, 1), "text-embedding-3-small") : c \in ChunkIds }

NextStore ==
    \/ \E x \in SingleInputs, connected \in BOOLEAN :
           StoreEmbedding(x.chunk_id, x.embedding, x.model, connected)
    \/ BatchBegin
    \/ BatchNoConnection
    \/ \E e \in Entries : BatchEntry(e)
    \/ BatchCommit
    \/ \E connected \in BOOLEAN : CreateVectorTables(connected)

\* the service starts on a database with or without the table
InitSpecStore ==
    /\ IdleStore /\ IdleChunk /\ IdleEmbed /\ IdleRag /\ IdleSearch /\ IdleApi
    /\ schema \in {NoSchema, MigratedSchema}
    /\ doc_chunks = SearchChunkIds
    /\ admin_call = NoAdminCall

SpecStore == InitSpecStore /\ [][NextStore]_vars

(***************************************************************************)
(* VectorStorageService.search_similar_embeddings.  The similarity of the  *)
(* query to a stored vector, 1 - (embedding <=> query), is kept in tenths. *)
(***************************************************************************)
QueryVals == {1, 2, 3}

Abs(x) == IF x < 0 THEN -x ELSE x

\* embedding <=> query, the cosine distance, in tenths: 0 for the same
\* direction, then 5, then 10
Distance(q, v) == 5 * Abs(q - v)

\* 1 - (ve.embedding <=> query), in tenths
Sim(q, v) == 10 - Distance(q, v)

\* the WHERE clause: `if agent_id:` and `if document_id:` add their filter
\* only for a value that is not None and not empty
InScopeAgentOnly(row, agent_id, document_id) ==
    agent_id # "" => DocAgent[ChunkDoc[row.chunkId]] = agent_id
InScope(row, agent_id, document_id) ==
    /\ agent_id # "" => DocAgent[ChunkDoc[row.chunkId]] = agent_id
    /\ document_id # "" => ChunkDoc[row.chunkId] = document_id

\* a row of the result: the joined columns and similarity_score
ResultRow(row, q) ==
    [chunk_id |-> row.chunkId,
     document_id |-> ChunkDoc[row.chunkId],
     agent_id |-> DocAgent[ChunkDoc[row.chunkId]],
     similarity_score |-> Sim(q, row.embedding.val)]

Perms(S) ==
    { f \in [1..Cardinality(S) -> S] :
        \A i, j \in 1..Cardinality(S) : i # j => f[i] # f[j] }

\* the orders ORDER BY ve.embedding <=> query can give the rows ks of the
\* table: ascending distance, rows at the same distance in the order the
\* database chooses
ByDistance(rows, q, ks) ==
    { f \in Perms(ks) :
        \A i \in 1..(Len(f) - 1) :
            Distance(q, rows[f[i]].embedding.val)
                <= Distance(q, rows[f[i + 1]].embedding.val) }

\* SELECT ... WHERE scope ORDER BY ve.embedding <=> query LIMIT limit, and
\* the list of dictionaries made of the rows fetched
SearchResultsFilterAfterLimit(rows, q, limit, agent_id, document_id) ==
    { LET first == SubSeq(f, 1, Min(limit, Len(f)))
          Kept(k) == InScope(rows[k], agent_id, document_id)
          kept == SelectSeq(first, Kept)
      IN [i \in 1..Len(kept) |-> ResultRow(rows[kept[i]], q)] :
      f \in ByDistance(rows, q, 1..Len(rows)) }
SearchResultsFarthestFirst(rows, q, limit, agent_id, document_id) ==
    LET inscope == { k \in 1..Len(rows) : InScope(rows[k], agent_id, document_id) }
    IN { [i \in 1..Min(limit, Len(f)) |-> ResultRow(rows[f[Len(f) + 1 - i]], q)] :
           f \in ByDistance(rows, q, inscope) }
SearchResults(rows, q, limit, agent_id, document_id) ==
    LET inscope == { k \in 1..Len(rows) : InScope(rows[k], agent_id, document_id) }
    IN { [i \in 1..Min(limit, Len(f)) |-> ResultRow(rows[f[i]], q)] :
           f \in ByDistance(rows, q, inscope) }

(***************************************************************************)
(* RAGService.  The coroutines run on one event loop thread: a task keeps  *)
(* the thread from the moment it is resumed until it awaits something that *)
(* suspends it or returns.  genai.embed_content and the psycopg2 calls are *)
(* made on the loop thread itself; generate_content runs in an executor    *)
(* thread and is awaited through run_in_executor.                          *)
(***************************************************************************)
MaxContextChunks == 1
\* similarity_threshold: float = 0.5, in tenths
SimilarityThreshold == 5

\* [result for result in similar_embeddings
\*     if result['similarity_score'] >= similarity_threshold][:max_results]
RelevantContextStrictlyAbove(results, max_results, similarity_threshold) ==
    LET AboveThreshold(r) == r.similarity_score > similarity_threshold
        kept == SelectSeq(results, AboveThreshold)
    IN SubSeq(kept, 1, Min(max_results, Len(kept)))
RelevantContext(results, max_results, similarity_threshold) ==
    LET AboveThreshold(r) == r.similarity_score >= similarity_threshold
        kept == SelectSeq(results, AboveThreshold)
    IN SubSeq(kept, 1, Min(max_results, Len(kept)))

\* the same with the default similarity_threshold, as
\* generate_contextual_response calls retrieve_relevant_context
Relevant(results, max_results) ==
    RelevantContext(results, max_results, SimilarityThreshold)

\* _prepare_context_text: one numbered source header and content per chunk
PrepareContextText(chunks_) ==
    [k \in 1..Len(chunks_) |->
        [source |-> k, chunk_id |-> chunks_[k].chunk_id,
         similarity |-> chunks_[k].similarity_score]]

\* an answer is a fixed or generated text followed by the context text the
\* code appends to it (<< >> when it appends none)
Answer(text, context) == [text |-> text, context |-> context]

\* `if not context_chunks:`
NoContextNever(chunks_) == FALSE
NoContext(chunks_) == chunks_ = << >>

\* the dictionary returned when there is no context
InsufficientResponse ==
    [answer |-> Answer("insufficient", << >>), sources |-> << >>,
     context_used |-> FALSE]

\* the dictionary returned after the generation step
ContextResponseOnlyWhenAnswered(answer, chunks_) ==
    [answer |-> answer, sources |-> chunks_, context_used |-> answer.context = << >>,
     context_chunks_count |-> Len(chunks_),
     context_text |-> PrepareContextText(chunks_)]
ContextResponse(answer, chunks_) ==
    [answer |-> answer, sources |-> chunks_, context_used |-> TRUE,
     context_chunks_count |-> Len(chunks_),
     context_text |-> PrepareContextText(chunks_)]

\* answer when ai_response.text is empty
EmptyFallback(context_text) == Answer("could_not_generate", context_text)
\* answer of the except branch: generate_content raised, or the wait timed out
ErrorFallbackWithoutContext(context_text) == Answer("error_generating", << >>)
ErrorFallback(context_text) == Answer("error_generating", context_text)
\* answer when self.ai_model is None
NoModelFallback(context_text) == Answer("model_not_available", context_text)

\* the answer once the awaited future.result returned what generate_content did
AnswerOf(outcome, context_text) ==
    CASE outcome = "text"   -> Answer("ai_text", << >>)
      [] outcome = "empty"  -> EmptyFallback(context_text)
      [] outcome = "raised" -> ErrorFallback(context_text)

Requests ==
    [query : QueryVals, agent_id : Agents, document_id : {"", "d1"},
     max_context_chunks : 1..MaxContextChunks]

RowOf(c, v) ==
    [id |-> EmbId(c), chunkId |-> c, embedding |-> Vector(EmbeddingDim, v),
     model |-> "text-embedding-004"]

\* the table with the row of chunk c carrying the vector f[c] (none for 0),
\* written in the order c1, c2
TableOf(f) ==
    LET Present(c) == f[c] # 0
        cs == SelectSeq(<<"c1", "c2">>, Present)
    IN [k \in 1..Len(cs) |-> RowOf(cs[k], f[cs[k]])]

\* the tables committed writes can leave: at most one row per chunk id
RagTables == { TableOf(f) : f \in [ChunkIds -> Vals \cup {0}] }

InitRag ==
    /\ ai_model \in BOOLEAN
    /\ loop_owner = "none"
    /\ rpc = [t \in Tasks |-> "idle"]
    /\ req = [t \in Tasks |-> NoReq]
    /\ ctx = [t \in Tasks |-> << >>]
    /\ infra_failure = [t \in Tasks |-> "none"]
    /\ gen = [t \in Tasks |-> "none"]
    /\ timed_out = [t \in Tasks |-> FALSE]
    /\ gen_calls = [t \in Tasks |-> 0]
    /\ resp = [t \in Tasks |-> NoResp]

\* the task returns r: the loop thread is free again
Return(t, r) ==
    /\ resp' = [resp EXCEPT ![t] = r]
    /\ rpc' = [rpc EXCEPT ![t] = "done"]
    /\ loop_owner' = "none"

\* generate_contextual_response is started on the loop and runs up to the
\* genai.embed_content call of generate_embedding, made on the loop thread
Start(t, r) ==
    /\ rpc[t] = "idle"
    /\ loop_owner = "none"
    /\ loop_owner' = t
    /\ rpc' = [rpc EXCEPT ![t] = "embedding"]
    /\ req' = [req EXCEPT ![t] = r]
    /\ UNCHANGED <<ai_model, ctx, infra_failure, gen, timed_out, gen_calls, resp>>
    /\ UNCHANGED notRagVars

\* embed_content returns the query embedding: search_similar_embeddings
\* connects and runs its query, on the loop thread
EmbedReturns(t) ==
    /\ rpc[t] = "embedding"
    /\ rpc' = [rpc EXCEPT ![t] = "searching"]
    /\ UNCHANGED <<ai_model, loop_owner, req, ctx, infra_failure, gen, timed_out,
                   gen_calls, resp>>
    /\ UNCHANGED notRagVars

\* the rest of generate_contextual_response once retrieve_relevant_context
\* has returned chunks_, up to its return or to the await of the generation
Compose(t, chunks_) ==
    /\ ctx' = [ctx EXCEPT ![t] = chunks_]
    /\ IF NoContext(chunks_)
       THEN /\ Return(t, InsufficientResponse)
            /\ UNCHANGED <<gen, gen_calls>>
       ELSE IF ~ai_model
       THEN /\ Return(t, ContextResponse(
                            NoModelFallback(PrepareContextText(chunks_)), chunks_))
            /\ UNCHANGED <<gen, gen_calls>>
       ELSE /\ gen' = [gen EXCEPT ![t] = "running"]            \* executor.submit
            /\ gen_calls' = [gen_calls EXCEPT ![t] = @ + 1]
            /\ rpc' = [rpc EXCEPT ![t] = "awaiting"]            \* await run_in_executor
            /\ loop_owner' = "none"
            /\ UNCHANGED resp

\* embed_content raises: generate_embedding returns None and
\* retrieve_relevant_context returns []
EmbedRaises(t) ==
    /\ rpc[t] = "embedding"
    /\ infra_failure' = [infra_failure EXCEPT ![t] = "embedding"]
    /\ Compose(t, << >>)
    /\ UNCHANGED <<ai_model, req, timed_out>>
    /\ UNCHANGED notRagVars

\* the query returns: the threshold filter, then the rest of the handler
SearchReturns(t) ==
    /\ rpc[t] = "searching"
    /\ \E results \in SearchResults(table, req[t].query, req[t].max_context_chunks * 2,
                                    req[t].agent_id, req[t].document_id) :
           Compose(t, Relevant(results, req[t].max_context_chunks))
    /\ UNCHANGED <<ai_model, req, infra_failure, timed_out>>
    /\ UNCHANGED notRagVars

\* the store is unreachable: search_similar_embeddings logs and returns []
SearchFails(t) ==
    /\ rpc[t] = "searching"
    /\ infra_failure' = [infra_failure EXCEPT ![t] = "store"]
    /\ Compose(t, << >>)
    /\ UNCHANGED <<ai_model, req, timed_out>>
    /\ UNCHANGED notRagVars

\* the executor thread: generate_content returns a text, an empty text, or raises
GenReturns(t, outcome) ==
    /\ gen[t] = "running"
    /\ gen' = [gen EXCEPT ![t] = outcome]
    /\ UNCHANGED <<ai_model, loop_owner, rpc, req, ctx, infra_failure, timed_out,
                   gen_calls, resp>>
    /\ UNCHANGED notRagVars

\* future.result(timeout=30.0) raises TimeoutError: 30 seconds have passed
\* and generate_content has not returned
Timeout(t) ==
    /\ rpc[t] = "awaiting"
    /\ gen[t] = "running"
    /\ ~timed_out[t]
    /\ timed_out' = [timed_out EXCEPT ![t] = TRUE]
    /\ UNCHANGED <<ai_model, loop_owner, rpc, req, ctx, infra_failure, gen,
                   gen_calls, resp>>
    /\ UNCHANGED notRagVars

\* the awaited run_in_executor future is done and the loop resumes the task.
\* With the result of generate_content the with block exits at once (the
\* executor is idle) and the answer is returned.  With TimeoutError the
\* exception leaves the with block first: ThreadPoolExecutor.__exit__ calls
\* shutdown(wait=True) on the loop thread.
Resume(t) ==
    /\ rpc[t] = "awaiting"
    /\ loop_owner = "none"
    /\ timed_out[t] \/ gen[t] # "running"
    /\ IF timed_out[t]
       THEN /\ rpc' = [rpc EXCEPT ![t] = "shutdown_wait"]
            /\ loop_owner' = t
            /\ UNCHANGED resp
       ELSE Return(t, ContextResponse(
                          AnswerOf(gen[t], PrepareContextText(ctx[t])), ctx[t]))
    /\ UNCHANGED <<ai_model, req, ctx, infra_failure, gen, timed_out, gen_calls>>
    /\ UNCHANGED notRagVars

\* shutdown(wait=True) returns once generate_content has ended; the
\* TimeoutError then reaches `except Exception` and the fallback is returned
ShutdownDone(t) ==
    /\ rpc[t] = "shutdown_wait"
    /\ gen[t] # "running"
    /\ Return(t, ContextResponse(ErrorFallback(PrepareContextText(ctx[t])), ctx[t]))
    /\ UNCHANGED <<ai_model, req, ctx, infra_failure, gen, timed_out, gen_calls>>
    /\ UNCHANGED notRagVars

\* the steps generate_contextual_response itself takes once it has started
HandlerStep(t) ==
    \/ EmbedReturns(t)
    \/ EmbedRaises(t)
    \/ SearchReturns(t)
    \/ SearchFails(t)
    \/ Resume(t)
    \/ ShutdownDone(t)

NextRag ==
    \/ \E t \in Tasks, r \in Requests : Start(t, r)
    \/ \E t \in Tasks : EmbedReturns(t)
    \/ \E t \in Tasks : EmbedRaises(t)
    \/ \E t \in Tasks : SearchReturns(t)
    \/ \E t \in Tasks : SearchFails(t)
    \/ \E t \in Tasks, o \in {"text", "empty", "raised"} : GenReturns(t, o)
    \/ \E t \in Tasks : Timeout(t)
    \/ \E t \in Tasks : Resume(t)
    \/ \E t \in Tasks : ShutdownDone(t)

InitSpecRag ==
    /\ InitRag /\ IdleChunk /\ IdleEmbed /\ IdleSearch /\ IdleApi /\ IdleCatalog
    /\ table \in RagTables
    /\ spc = "idle"
    /\ txn = NoTxn
    /\ last_call = NoCall
    /\ batch_wf = [c \in ChunkIds |-> NoPayload]
    /\ batch_counted = [c \in ChunkIds |-> NoPayload]
    /\ batch_durable = 0
    /\ last_write = [c \in ChunkIds |-> NoPayload]
    /\ overwritten = {}

SpecRag == InitSpecRag /\ [][NextRag]_vars

(***************************************************************************)
(* One call of search_similar_embeddings, or of retrieve_relevant_context, *)
(* on a table holding embeddings of the chunks of several documents and    *)
(* agents.  The calls read the table and keep nothing between them, so a   *)
(* behaviour makes one.                                                    *)
(***************************************************************************)
MaxLimit == 2

\* values of similarity_threshold: everything passes, the default, only the
\* same direction passes
Thresholds == {0, SimilarityThreshold, 10}

\* the table with the row of chunk c carrying the vector f[c] (none for 0)
SearchTableOf(f) ==
    LET Present(c) == f[c] # 0
        cs == SelectSeq(<<"c1", "c2", "c3", "c4">>, Present)
    IN [k \in 1..Len(cs) |-> RowOf(cs[k], f[cs[k]])]

SearchTables == { SearchTableOf(f) : f \in [SearchChunkIds -> Vals \cup {0}] }

SearchRecord(op, q, limit, agent_id, document_id, threshold, failed, results) ==
    [op |-> op, query |-> q, limit |-> limit, agent_id |-> agent_id,
     document_id |-> document_id, threshold |-> threshold, failed |-> failed,
     results |-> results]

\* search_similar_embeddings(query_embedding, limit, agent_id, document_id)
SearchSimilarEmbeddings(q, limit, agent_id, document_id) ==
    /\ search = NoSearch
    /\ \E results \in SearchResults(table, q, limit, agent_id, document_id) :
           search' = SearchRecord("search", q, limit, agent_id, document_id, 0,
                                  FALSE, results)
    /\ UNCHANGED notSearchVars

\* the same call when psycopg2.connect or the query raises: [] is returned
SearchSimilarEmbeddingsFails(q, limit, agent_id, document_id) ==
    /\ search = NoSearch
    /\ search' = SearchRecord("search", q, limit, agent_id, document_id, 0,
                              TRUE, << >>)
    /\ UNCHANGED notSearchVars

\* retrieve_relevant_context(query, agent_id, document_id, max_results,
\* similarity_threshold) when the query embedding and the search succeed
RetrieveRelevantContext(q, agent_id, document_id, max_results, threshold) ==
    /\ search = NoSearch
    /\ \E results \in SearchResults(table, q, max_results * 2, agent_id, document_id) :
           search' = SearchRecord("retrieve", q, max_results, agent_id, document_id,
                                  threshold, FALSE,
                                  RelevantContext(results, max_results, threshold))
    /\ UNCHANGED notSearchVars

\* the same call when generate_embedding returns None or the search fails
RetrieveRelevantContextFails(q, agent_id, document_id, max_results, threshold) ==
    /\ search = NoSearch
    /\ search' = SearchRecord("retrieve", q, max_results, agent_id, document_id,
                              threshold, TRUE, << >>)
    /\ UNCHANGED notSearchVars

\* the dictionary search_documents makes of a row found: the content of the
\* chunk (a chunk is known by its content here) and its relevance_score; the
\* ids of the chunk, document and agent are not copied
FormattedResult(r) ==
    [content |-> r.chunk_id, relevance_score |-> r.similarity_score]

\* search_documents(query, agent_id, document_id, max_results) when the query
\* embedding and the search succeed
SearchDocuments(q, agent_id, document_id, max_results) ==
    /\ search = NoSearch
    /\ \E results \in SearchResults(table, q, max_results, agent_id, document_id) :
           search' = SearchRecord("documents", q, max_results, agent_id, document_id,
                                  0, FALSE,
                                  [i \in 1..Len(results) |-> FormattedResult(results[i])])
    /\ UNCHANGED notSearchVars

\* the same call when generate_embedding returns None or the search fails
SearchDocumentsFails(q, agent_id, document_id, max_results) ==
    /\ search = NoSearch
    /\ search' = SearchRecord("documents", q, max_results, agent_id, document_id,
                              0, TRUE, << >>)
    /\ UNCHANGED notSearchVars

AgentArgs == Agents \cup {""}
DocumentArgs == Docs \cup {""}

NextSearch ==
    \/ \E q \in QueryVals, limit \in 0..MaxLimit, a \in AgentArgs, d \in DocumentArgs :
           SearchSimilarEmbeddings(q, limit, a, d)
    \/ \E q \in QueryVals, limit \in 0..MaxLimit, a \in AgentArgs, d \in DocumentArgs :
           SearchSimilarEmbeddingsFails(q, limit, a, d)
    \/ \E q \in QueryVals, n \in 0..MaxLimit, a \in AgentArgs, d \in DocumentArgs,
          th \in Thresholds :
           RetrieveRelevantContext(q, a, d, n, th)
    \/ \E q \in QueryVals, n \in 0..MaxLimit, a \in AgentArgs, d \in DocumentArgs,
          th \in Thresholds :
           RetrieveRelevantContextFails(q, a, d, n, th)
    \/ \E q \in QueryVals, n \in 0..MaxLimit, a \in AgentArgs, d \in DocumentArgs :
           SearchDocuments(q, a, d, n)
    \/ \E q \in QueryVals, n \in 0..MaxLimit, a \in AgentArgs, d \in DocumentArgs :
           SearchDocumentsFails(q, a, d, n)

InitSpecSearch ==
    /\ IdleChunk /\ IdleEmbed /\ IdleRag /\ IdleSearch /\ IdleApi /\ IdleCatalog
    /\ table \in SearchTables
    /\ spc = "idle"
    /\ txn = NoTxn
    /\ last_call = NoCall
    /\ batch_wf = [c \in ChunkIds |-> NoPayload]
    /\ batch_counted = [c \in ChunkIds |-> NoPayload]
    /\ batch_durable = 0
    /\ last_write = [c \in ChunkIds |-> NoPayload]
    /\ overwritten = {}

SpecSearch == InitSpecSearch /\ [][NextSearch]_vars

(***************************************************************************)
(* delete_embeddings_by_document, and the removal of a document's chunks   *)
(* from "DocumentChunk" by the store of documents.  "VectorEmbedding" as   *)
(* create_vector_tables declares it has no foreign key to "DocumentChunk": *)
(* removing a chunk row leaves the embedding row.                          *)
(***************************************************************************)
\* SELECT id FROM "DocumentChunk" WHERE "documentId" = %s
ChunksOfDocument(present, d) == { c \in present : ChunkDoc[c] = d }

\* DELETE FROM "VectorEmbedding" WHERE "chunkId" IN (that subquery)
DeleteRowsOfEveryDocument(rows, present, d) ==
    LET Kept(row) == row.chunkId \notin present
    IN SelectSeq(rows, Kept)
DeleteRows(rows, present, d) ==
    LET Kept(row) == row.chunkId \notin ChunksOfDocument(present, d)
    IN SelectSeq(rows, Kept)

\* delete_embeddings_by_document(document_id); connected: psycopg2.connect
\* succeeded
DeleteEmbeddingsByDocument(d, connected) ==
    /\ spc = "idle"
    /\ LET ok == connected /\ schema.exists /\ "chunkId" \in schema.columns
       IN /\ table' = IF ok THEN DeleteRows(table, doc_chunks, d) ELSE table
          /\ admin_call' = [op |-> "delete", ret |-> ok, connected |-> connected,
                            document_id |-> d, before |-> schema,
                            rows_before |-> table, chunks_before |-> doc_chunks]
    /\ UNCHANGED <<schema, doc_chunks>>
    /\ UNCHANGED <<spc, txn, last_call, batch_wf, batch_counted, batch_durable,
                   last_write, overwritten>>
    /\ UNCHANGED <<chunkVars, embedVars, ragVars, searchVars, apiVars>>

\* the document d is removed from the store of documents: its rows of
\* "DocumentChunk" go
RemoveDocumentChunks(d) ==
    /\ spc = "idle"
    /\ ChunksOfDocument(doc_chunks, d) # {}
    /\ doc_chunks' = doc_chunks \ ChunksOfDocument(doc_chunks, d)
    /\ UNCHANGED <<schema, admin_call>>
    /\ UNCHANGED <<chunkVars, embedVars, storeVars, ragVars, searchVars, apiVars>>

NextDelete ==
    \/ \E d \in Docs, connected \in BOOLEAN : DeleteEmbeddingsByDocument(d, connected)
    \/ \E d \in Docs : RemoveDocumentChunks(d)

InitSpecDelete ==
    /\ IdleChunk /\ IdleEmbed /\ IdleRag /\ IdleSearch /\ IdleApi /\ IdleCatalog
    /\ table \in SearchTables
    /\ spc = "idle"
    /\ txn = NoTxn
    /\ last_call = NoCall
    /\ batch_wf = [c \in ChunkIds |-> NoPayload]
    /\ batch_counted = [c \in ChunkIds |-> NoPayload]
    /\ batch_durable = 0
    /\ last_write = [c \in ChunkIds |-> NoPayload]
    /\ overwritten = {}

SpecDelete == InitSpecDelete /\ [][NextDelete]_vars

(***************************************************************************)
(* The state of the retrieval pipeline before any call: what the           *)
(* specifications of clean_text, of the connections and of the practice    *)
(* sessions keep it at.                                                    *)
(***************************************************************************)
IdleRetrieval ==
    IdleSearch /\ IdleChunk /\ IdleEmbed /\ IdleStore /\ IdleRag /\ IdleCatalog

(***************************************************************************)
(* PDFProcessor.clean_text.  A text is a sequence of characters: a letter, *)
(* a digit, a space, a newline ("NL") and "^", a character outside the     *)
(* class the last substitution keeps.                                      *)
(***************************************************************************)
MaxChars == 5

Chars == {"a", "1", " ", "NL", "^"}
RawTexts == UNION { [1..n -> Chars] : n \in 0..MaxChars }

\* \s, \d, and the class [\w\s\.\,\!\?...] of the characters kept
SpaceChars == {" ", "NL"}
DigitChars == {"1"}
SafeChars == Chars \ {"^"}

\* where the run of characters of S that starts at p ends: the first
\* position from p on whose character is not in S, Len(t) + 1 when none
RunEnd(t, p, S) ==
    LET stops == { k \in p..Len(t) : t[k] \notin S }
    IN IF stops = {} THEN Len(t) + 1
       ELSE CHOOSE k \in stops : \A j \in stops : k <= j

\* re.sub(r'\s+', ' ', text)
RECURSIVE CollapseWhitespaceFrom(_, _)
CollapseWhitespaceFrom(t, p) ==
    IF p > Len(t) THEN << >>
    ELSE IF t[p] \in SpaceChars
         THEN <<" ">> \o CollapseWhitespaceFrom(t, RunEnd(t, p, SpaceChars))
         ELSE <<t[p]>> \o CollapseWhitespaceFrom(t, p + 1)
CollapseWhitespace(t) == CollapseWhitespaceFrom(t, 1)

\* ^ under re.MULTILINE: the start of the text or the place after a newline
AtLineStart(t, p) == p = 1 \/ t[p - 1] = "NL"

\* where a match of ^\s*\d+\s*$ that starts at p ends (the position after
\* its last character), 0 when there is none.  \s* takes the whole run of
\* whitespace, newlines included, and \d+ the whole run of digits; the last
\* \s* gives characters back until $ holds: at the end of the text, or
\* before the last newline of the run
DigitLineEnd(t, p) ==
    LET a == RunEnd(t, p, SpaceChars)
        b == RunEnd(t, a, DigitChars)
        c == RunEnd(t, b, SpaceChars)
        nls == { k \in b..(c - 1) : t[k] = "NL" }
    IN IF ~AtLineStart(t, p) \/ b = a THEN 0
       ELSE IF c = Len(t) + 1 THEN c
       ELSE IF nls = {} THEN 0
       ELSE CHOOSE k \in nls : \A j \in nls : k >= j

\* re.sub(r'^\s*\d+\s*$', '', text, flags=re.MULTILINE)
RECURSIVE RemoveDigitLinesFrom(_, _)
RemoveDigitLinesFrom(t, p) ==
    IF p > Len(t) THEN << >>
    ELSE IF DigitLineEnd(t, p) # 0
         THEN RemoveDigitLinesFrom(t, DigitLineEnd(t, p))
         ELSE <<t[p]>> \o RemoveDigitLinesFrom(t, p + 1)
RemoveDigitLines(t) == RemoveDigitLinesFrom(t, 1)

\* where a match of \n\s*\n\s*\n that starts at p ends, 0 when there is
\* none: the run of whitespace from p holds three newlines or more, and the
\* match goes up to the last of them
NewlinesEnd(t, p) ==
    LET c == RunEnd(t, p, SpaceChars)
        nls == { k \in p..(c - 1) : t[k] = "NL" }
    IN IF t[p] # "NL" \/ Cardinality(nls) < 3 THEN 0
       ELSE (CHOOSE k \in nls : \A j \in nls : k >= j) + 1

\* re.sub(r'\n\s*\n\s*\n', '\n\n', text)
RECURSIVE CollapseNewlinesFrom(_, _)
CollapseNewlinesFrom(t, p) ==
    IF p > Len(t) THEN << >>
    ELSE IF NewlinesEnd(t, p) # 0
         THEN <<"NL", "NL">> \o CollapseNewlinesFrom(t, NewlinesEnd(t, p))
         ELSE <<t[p]>> \o CollapseNewlinesFrom(t, p + 1)
CollapseNewlines(t) == CollapseNewlinesFrom(t, 1)

\* re.sub(r'[^\w\s\.\,...]', '', text)
DropUnsafe(t) ==
    LET Safe(c) == c \in SafeChars
    IN SelectSeq(t, Safe)

\* text.strip()
Strip(t) ==
    LET ks == { k \in 1..Len(t) : t[k] \notin SpaceChars }
    IN IF ks = {} THEN << >>
       ELSE SubSeq(t, CHOOSE k \in ks : \A j \in ks : k <= j,
                      CHOOSE k \in ks : \A j \in ks : k >= j)

\* clean_text(text): the five steps in the order of the code
clean_text(t) ==
    Strip(DropUnsafe(CollapseNewlines(RemoveDigitLines(CollapseWhitespace(t)))))

InitClean ==
    /\ raw_text \in RawTexts
    /\ cleaned_text = << >>
    /\ clean_pc = "start"

CleanText ==
    /\ clean_pc = "start"
    /\ cleaned_text' = clean_text(raw_text)
    /\ clean_pc' = "done"
    /\ UNCHANGED raw_text
    /\ UNCHANGED notCleanVars

NextClean == CleanText

InitSpecClean ==
    /\ InitClean /\ IdleRetrieval /\ IdleConn /\ IdleSession

SpecClean == InitSpecClean /\ [][NextClean]_vars

(***************************************************************************)
(* VectorStorageService.get_connection around the body of each operation.  *)
(* The operations are coroutines without an await inside: they run one at  *)
(* a time on the event loop thread.  Every operation has the shape          *)
(*     try:                                                                *)
(*         with self.get_connection() as conn: body                        *)
(*     except Exception: return the failure value                          *)
(* and get_connection is the generator                                     *)
(*     conn = None                                                         *)
(*     try: conn = psycopg2.connect(...); yield conn                       *)
(*     except Exception as e: if conn: conn.rollback(); raise e            *)
(*     finally: if conn: conn.close()                                      *)
(***************************************************************************)
MaxCalls == 2

Operations ==
    {"ensure_pgvector_extension", "create_vector_tables", "store_embedding",
     "store_embeddings_batch", "search_similar_embeddings",
     "delete_embeddings_by_document", "get_embedding_stats"}

\* the body of ensure_pgvector_extension returns from inside its with block
\* before its last statement, when the extension is already there
HasEarlyReturn(op) == op = "ensure_pgvector_extension"

\* an operation is called
CallOperation(op) ==
    /\ conn_pc = "idle"
    /\ Len(conn_log) < MaxCalls
    /\ conn_op' = op
    /\ conn_pc' = "connect"
    /\ conn' = "None"
    /\ conn_exit' = "none"
    /\ UNCHANGED <<open_conns, conn_log>>
    /\ UNCHANGED notConnVars

\* conn = psycopg2.connect(self.database_url); yield conn
ConnectReturns ==
    /\ conn_pc = "connect"
    /\ conn' = "open"
    /\ open_conns' = open_conns + 1
    /\ conn_pc' = "body"
    /\ UNCHANGED <<conn_op, conn_exit, conn_log>>
    /\ UNCHANGED notConnVars

\* psycopg2.connect raises: conn is still None in the except clause
ConnectRaises ==
    /\ conn_pc = "connect"
    /\ conn_exit' = "connect_failed"
    /\ conn_pc' = "except"
    /\ UNCHANGED <<conn_op, conn, open_conns, conn_log>>
    /\ UNCHANGED notConnVars

\* the body reaches its last statement, `return ...` inside the with block:
\* the generator is resumed after its yield and runs its finally clause
BodyReturns ==
    /\ conn_pc = "body"
    /\ conn_exit' = "return"
    /\ conn_pc' = "finally"
    /\ UNCHANGED <<conn_op, conn, open_conns, conn_log>>
    /\ UNCHANGED notConnVars

\* `if cur.fetchone(): return True` of ensure_pgvector_extension
BodyReturnsEarly ==
    /\ conn_pc = "body"
    /\ HasEarlyReturn(conn_op)
    /\ conn_exit' = "early_return"
    /\ conn_pc' = "finally"
    /\ UNCHANGED <<conn_op, conn, open_conns, conn_log>>
    /\ UNCHANGED notConnVars

\* a statement of the body raises: the exception is thrown into the
\* generator at its yield
BodyRaises ==
    /\ conn_pc = "body"
    /\ conn_exit' = "exception"
    /\ conn_pc' = "except"
    /\ UNCHANGED <<conn_op, conn, open_conns, conn_log>>
    /\ UNCHANGED notConnVars

\* except Exception as e: if conn: conn.rollback(); raise e.  Whether the
\* rollback returns or raises, the finally clause runs next
ExceptClause ==
    /\ conn_pc = "except"
    /\ conn_pc' = "finally"
    /\ UNCHANGED <<conn_op, conn, conn_exit, open_conns, conn_log>>
    /\ UNCHANGED notConnVars

\* finally: if conn: conn.close() -- whether the clause closes the
\* connection c of an operation left by path
ClosedByFinallyOnReturn(c, path) == c = "open" /\ path \in {"return", "early_return"}
ClosedByFinally(c, path) == c = "open"

\* the finally clause, then the operation returns its value to the caller
FinallyClause ==
    /\ conn_pc = "finally"
    /\ IF ClosedByFinally(conn, conn_exit)
       THEN conn' = "closed" /\ open_conns' = open_conns - 1
       ELSE UNCHANGED <<conn, open_conns>>
    /\ conn_log' = Append(conn_log, [op |-> conn_op, exit |-> conn_exit])
    /\ conn_op' = "none"
    /\ conn_pc' = "idle"
    /\ UNCHANGED conn_exit
    /\ UNCHANGED notConnVars

NextConn ==
    \/ \E op \in Operations : CallOperation(op)
    \/ ConnectReturns
    \/ ConnectRaises
    \/ BodyReturns
    \/ BodyReturnsEarly
    \/ BodyRaises
    \/ ExceptClause
    \/ FinallyClause

InitSpecConn ==
    /\ IdleConn /\ IdleRetrieval /\ IdleClean /\ IdleSession

SpecConn == InitSpecConn /\ [][NextConn]_vars

(***************************************************************************)
(* main.py: the practice sessions.  The handlers are coroutines that run   *)
(* to their end on the event loop thread, so each is one step.  A question *)
(* is [id, correct_answer]; it has NumOptions options.  A session id is    *)
(* the number of the uuid4 call that made it.  The response to a request   *)
(* is kept in reply with the arguments the claims read: for a create       *)
(* request its exam_type and topic and the set of session ids it added,    *)
(* for an answer whether the session was completed when it arrived.        *)
(***************************************************************************)
MaxSessions == 1
MaxNow == 130
TickSeconds == 61

QuestionCount == 10
TimeLimit == 120
NumOptions == 4

\* exam types and topics of the requests: the first of each set is a key of
\* EXAM_PROMPTS / TOPIC_PROMPTS, "gate" and "history" are not
ExamTypes == {"upsc", "gate"}
Topics == {"mathematics", "quantitative", "history"}
HasExamPrompt(exam_type) == exam_type = "upsc"
HasTopicPrompt(topic) == topic \in {"mathematics", "quantitative"}

\* what the Gemini model does for a prompt: there is no model, its reply
\* cannot be used (it raised, was too short, was not a JSON list or was an
\* empty list), or it is a JSON list of n question objects
AiCounts == {3, QuestionCount}
AiReplies ==
    {[kind |-> "no_model", n |-> 0], [kind |-> "unusable", n |-> 0]}
        \cup { [kind |-> "list", n |-> n] : n \in AiCounts }

\* the question ids and answers of the submit_answer requests: an option
\* index that is some question's correct answer, another one, and an int
\* that is no index of a 4-element list
QuestionIds == {1, 2}
SelectedAnswers == {0, 2, 4}

MakeQuestion(i, correct_answer) == [id |-> i, correct_answer |-> correct_answer]

\* the correct_answer values of the fallback bank of a topic;
\* fallback_questions.get(request.topic, fallback_questions["mathematics"])
FallbackBank(topic) ==
    IF topic = "quantitative" THEN <<1, 0, 1, 1, 1>> ELSE <<2, 0>>

\* generate_fallback_questions(request)
generate_fallback_questions(topic, count) ==
    LET topic_questions == FallbackBank(topic)
        limited == IF Len(topic_questions) > count
                   THEN SubSeq(topic_questions, 1, count)
                   ELSE topic_questions
    IN [i \in 1..Len(limited) |-> MakeQuestion(i, limited[i])]

\* the questions made of the JSON list of the model: as many as it holds,
\* each correct_answer in 0..3
QuestionsOfList(n) == [i \in 1..n |-> MakeQuestion(i, i % NumOptions)]

\* generate_questions(request): the 400 error or the list of questions
generate_questions(exam_type, topic, count_arg, ai) ==
    LET count == IF count_arg <= 0 \/ count_arg > 20 THEN 5 ELSE count_arg
    IN IF ~HasExamPrompt(exam_type) \/ ~HasTopicPrompt(topic)
       THEN [raised |-> TRUE, status |-> 400,
             detail |-> "Invalid exam type or topic", questions |-> << >>]
       ELSE [raised |-> FALSE, status |-> 200, detail |-> "",
             questions |-> IF ai.kind = "list"
                           THEN QuestionsOfList(ai.n)
                           ELSE generate_fallback_questions(topic, count)]

\* the dictionary put in (or out of) a dict
Put(d, k, v) == [x \in DOMAIN d \cup {k} |-> IF x = k THEN v ELSE d[x]]
Without(d, ks) == [x \in DOMAIN d \ ks |-> d[x]]

\* cleanup_expired_sessions(): active_sessions less the sessions past their
\* time limit that are not completed
cleanup_expired_sessions(sessions, current_time) ==
    LET expired_sessions ==
            { sid \in DOMAIN sessions :
                /\ current_time - sessions[sid].start_time > sessions[sid].time_limit
                /\ ~sessions[sid].completed }
    IN Without(sessions, expired_sessions)

\* POST /api/session
CreatePracticeSession(exam_type, topic, ai) ==
    LET cleaned == cleanup_expired_sessions(active_sessions, now)
        generated == generate_questions(exam_type, topic, QuestionCount, ai)
        session_id == created + 1
        session_data ==
            [exam_type |-> exam_type, topic |-> topic,
             questions |-> generated.questions, start_time |-> now,
             time_limit |-> TimeLimit, answers |-> << >>, completed |-> FALSE]
    IN /\ created < MaxSessions
       /\ IF generated.raised
          THEN \* except Exception as e: raise HTTPException(status_code=500, ...)
               /\ active_sessions' = cleaned
               /\ reply' = [NoReply EXCEPT !.op = "create", !.status = 500,
                                           !.detail = "Error creating session",
                                           !.exam_type = exam_type, !.topic = topic]
               /\ UNCHANGED created
          ELSE /\ active_sessions' = Put(cleaned, session_id, session_data)
               /\ created' = session_id
               /\ reply' = [NoReply EXCEPT !.op = "create", !.status = 200,
                                           !.session_id = session_id,
                                           !.exam_type = exam_type, !.topic = topic,
                                           !.added = {session_id},
                                           !.questions = Len(generated.questions),
                                           !.time_limit = TimeLimit]
       /\ UNCHANGED <<now, first_result>>
       /\ UNCHANGED notSessionVars

\* POST /api/session/{session_id}/answer
SubmitAnswer(session_id, question_id, selected_answer) ==
    /\ IF session_id \notin DOMAIN active_sessions
       THEN /\ reply' = [NoReply EXCEPT !.op = "answer", !.status = 404,
                                        !.detail = "Session not found",
                                        !.session_id = session_id]
            /\ UNCHANGED active_sessions
       ELSE LET session == active_sessions[session_id]
            IN IF now - session.start_time > session.time_limit
               THEN /\ reply' = [NoReply EXCEPT !.op = "answer", !.status = 400,
                                     !.detail = "Session time limit exceeded",
                                     !.session_id = session_id,
                                     !.was_completed = session.completed]
                    /\ UNCHANGED active_sessions
               ELSE /\ active_sessions' =
                           [active_sessions EXCEPT ![session_id].answers =
                               Put(@, question_id, selected_answer)]
                    /\ reply' = [NoReply EXCEPT !.op = "answer", !.status = 200,
                                     !.session_id = session_id,
                                     !.was_completed = session.completed]
    /\ UNCHANGED <<created, now, first_result>>
    /\ UNCHANGED notSessionVars

\* the questions of a session that have an answer, and those of them whose
\* answer is the correct one
Answered(session) ==
    { i \in 1..Len(session.questions) :
        session.questions[i].id \in DOMAIN session.answers }
AnsweredRight(session) ==
    { i \in Answered(session) :
        session.answers[session.questions[i].id] = session.questions[i].correct_answer }

\* question.options[user_answer] raises IndexError
IndexRaises(user_answer) == user_answer >= NumOptions \/ user_answer < -NumOptions

\* the loop of complete_session or the division after it raises
CompleteRaises(session) ==
    \/ \E i \in Answered(session) \ AnsweredRight(session) :
           IndexRaises(session.answers[session.questions[i].id])
    \/ Len(session.questions) = 0

\* wrong_answers, as the ids of its questions in the order of the loop
WrongAnswers(session) ==
    LET IsWrong(i) == i \in Answered(session) \ AnsweredRight(session)
        wrong == SelectSeq([i \in 1..Len(session.questions) |-> i], IsWrong)
    IN [k \in 1..Len(wrong) |-> session.questions[wrong[k]].id]

\* POST /api/session/{session_id}/complete
CompleteSession(session_id) ==
    /\ IF session_id \notin DOMAIN active_sessions
       THEN /\ reply' = [NoReply EXCEPT !.op = "complete", !.status = 404,
                                        !.detail = "Session not found",
                                        !.session_id = session_id]
            /\ UNCHANGED <<active_sessions, first_result>>
       ELSE LET session == active_sessions[session_id]
            IN IF CompleteRaises(session)
               THEN \* the exception leaves the handler: global_exception_handler
                    /\ reply' = [NoReply EXCEPT !.op = "complete", !.status = 500,
                                     !.detail = "Internal server error",
                                     !.session_id = session_id,
                                     !.was_completed = session.completed]
                    /\ UNCHANGED <<active_sessions, first_result>>
               ELSE /\ active_sessions' =
                           [active_sessions EXCEPT ![session_id].completed = TRUE]
                    /\ reply' = [NoReply EXCEPT !.op = "complete", !.status = 200,
                                     !.session_id = session_id,
                                     !.questions = Len(session.questions),
                                     !.correct_answers = Cardinality(AnsweredRight(session)),
                                     !.wrong_answers = WrongAnswers(session),
                                     !.completed = TRUE,
                                     !.was_completed = session.completed]
                    /\ first_result' =
                           IF session_id \in DOMAIN first_result THEN first_result
                           ELSE Put(first_result, session_id,
                                    [correct_answers |-> Cardinality(AnsweredRight(session)),
                                     wrong_answers |-> WrongAnswers(session)])
    /\ UNCHANGED <<created, now>>
    /\ UNCHANGED notSessionVars

\* GET /api/session/{session_id}/status
GetSessionStatus(session_id) ==
    /\ IF session_id \notin DOMAIN active_sessions
       THEN reply' = [NoReply EXCEPT !.op = "status", !.status = 404,
                                     !.detail = "Session not found",
                                     !.session_id = session_id]
       ELSE LET session == active_sessions[session_id]
            IN reply' = [NoReply EXCEPT !.op = "status", !.status = 200,
                             !.session_id = session_id,
                             !.questions = Len(session.questions),
                             !.completed = session.completed,
                             !.was_completed = session.completed]
    /\ UNCHANGED <<active_sessions, created, now, first_result>>
    /\ UNCHANGED notSessionVars

\* POST /api/sessions/cleanup
CleanupAllSessions ==
    /\ active_sessions' = cleanup_expired_sessions(active_sessions, now)
    /\ reply' = [NoReply EXCEPT !.op = "cleanup", !.status = 200]
    /\ UNCHANGED <<created, now, first_result>>
    /\ UNCHANGED notSessionVars

\* time passes
Elapse ==
    /\ now <= MaxNow
    /\ now' = now + TickSeconds
    /\ UNCHANGED <<active_sessions, created, reply, first_result>>
    /\ UNCHANGED notSessionVars

SessionIds == 1..MaxSessions

NextSession ==
    \/ \E e \in ExamTypes, t \in Topics, ai \in AiReplies : CreatePracticeSession(e, t, ai)
    \/ \E sid \in SessionIds, q \in QuestionIds, a \in SelectedAnswers :
           SubmitAnswer(sid, q, a)
    \/ \E sid \in SessionIds : CompleteSession(sid)
    \/ \E sid \in SessionIds : GetSessionStatus(sid)
    \/ CleanupAllSessions
    \/ Elapse

InitSpecSession ==
    /\ IdleSession /\ IdleRetrieval /\ IdleClean /\ IdleConn

SpecSession == InitSpecSession /\ [][NextSession]_vars

(***************************************************************************)
(* C1. Every chunk produced by split_text_into_chunks has a token count    *)
(* <= chunk_size, except a chunk that holds a single sentence whose own    *)
(* token count exceeds chunk_size.                                         *)
(***************************************************************************)
IsOversizedSentence(content) ==
    \E k \in 1..Len(sentences) :
        /\ content = sentences[k]
        /\ SumTok(sentences[k]) > chunk_size

C1_ChunksWithinSize ==
    \A k \in 1..Len(chunks) :
        \/ SumTok(chunks[k].content) <= chunk_size
        \/ IsOversizedSentence(chunks[k].content)

\* a chunk was closed and the next one, seeded with the overlap, was emitted
C1_SeededChunkEmitted ==
    /\ cpc = "done"
    /\ Len(chunks) >= 2
    /\ chunk_overlap >= 4

(***************************************************************************)
(* C2. After store_embeddings_batch returns n, exactly n entries of the    *)
(* batch are durably stored: the count returned equals the number of       *)
(* entries whose INSERT was committed, and every chunk counted in it has   *)
(* its row in the table.                                                   *)
(***************************************************************************)
BatchReturned == spc = "idle" /\ last_call.op = "batch"

C2_CountIsDurable ==
    BatchReturned =>
        /\ last_call.ret = batch_durable
        /\ \A c \in ChunkIds : batch_counted[c] # NoPayload => HasRow(table, c)

\* a batch returned after one INSERT succeeded and a later one failed
C2_CountedThenFailed ==
    /\ BatchReturned
    /\ last_call.ret > 0
    /\ \E c \in ChunkIds : batch_wf[c] # NoPayload /\ batch_counted[c] = NoPayload

(***************************************************************************)
(* C3. In store_embeddings_batch a skipped or failing entry does not       *)
(* prevent any other entry from being stored: once the call has returned   *)
(* (the connection was made), every well-formed entry of the batch is in   *)
(* the table.                                                              *)
(***************************************************************************)
RowCarries(rows, c, p) ==
    \E k \in 1..Len(rows) :
        /\ rows[k].chunkId = c
        /\ rows[k].embedding = Vector(EmbeddingDim, p.val)
        /\ rows[k].model = p.model

C3_WellFormedAllStored ==
    (BatchReturned /\ last_call.connected) =>
        \A c \in ChunkIds : batch_wf[c] # NoPayload => RowCarries(table, c, batch_wf[c])

\* a batch holding a well-formed entry has returned with nothing committed
C3_WellFormedInFailedBatch ==
    /\ BatchReturned
    /\ last_call.connected
    /\ batch_durable = 0
    /\ \E c \in ChunkIds : batch_wf[c] # NoPayload

(***************************************************************************)
(* C4. After any sequence of store_embedding and store_embeddings_batch    *)
(* calls the table holds at most one row per chunk id, and the row carries *)
(* the vector and the model of the most recent write of that chunk id that *)
(* was committed (no row when there was none).                             *)
(***************************************************************************)
RowsOf(rows, c) == { k \in 1..Len(rows) : rows[k].chunkId = c }

C4_OneRowLatestWrite ==
    \A c \in ChunkIds :
        /\ Cardinality(RowsOf(table, c)) <= 1
        /\ last_write[c] # NoPayload => RowCarries(table, c, last_write[c])
        /\ last_write[c] = NoPayload => RowsOf(table, c) = {}

\* a row written by an earlier call has been replaced, by a batch and by a
\* single write, with another vector and model
C4_RowReplaced ==
    /\ overwritten = ChunkIds
    /\ BatchReturned
    /\ batch_durable > 0

(***************************************************************************)
(* C6. When the query embedding fails or the store is unreachable,         *)
(* retrieve_relevant_context returns a value its caller can tell apart     *)
(* from the one returned by a successful retrieval in which no chunk       *)
(* reached the threshold.                                                  *)
(***************************************************************************)
\* retrieve_relevant_context has returned to task t (ctx[t] holds the value)
Retrieved(t) == rpc[t] \in {"awaiting", "shutdown_wait", "done"}

C6_FailureDistinctFromNoMatch ==
    \A t, u \in Tasks :
        ( /\ Retrieved(t) /\ infra_failure[t] # "none"
          /\ Retrieved(u) /\ infra_failure[u] = "none" /\ ctx[u] = << >> )
        => ctx[t] # ctx[u]

\* one retrieval failed at the embedding and another found rows, none of
\* them above the threshold
C6_FailureAndNoMatch ==
    /\ table # << >>
    /\ Retrieved("r1") /\ infra_failure["r1"] = "embedding"
    /\ Retrieved("r2") /\ infra_failure["r2"] = "none" /\ ctx["r2"] = << >>
    /\ req["r2"].agent_id = "a1" /\ req["r2"].document_id = "d1"
    /\ \E k \in 1..Len(table) : table[k].chunkId = "c1"

(***************************************************************************)
(* C7. Once the 30-second timeout has fired, generate_contextual_response  *)
(* does not wait for the generation call: whenever the event loop is       *)
(* available to the task, the handler can take its next step towards       *)
(* returning the fallback, whether or not generate_content has returned.   *)
(***************************************************************************)
C7_NoWaitAfterTimeout ==
    \A t \in Tasks :
        (timed_out[t] /\ rpc[t] # "done" /\ loop_owner \in {"none", t})
        => ENABLED HandlerStep(t)

\* the timeout has fired, the task was resumed, generate_content still runs
C7_TimedOutStillRunning ==
    \E t \in Tasks : timed_out[t] /\ rpc[t] = "shutdown_wait" /\ gen[t] = "running"

(***************************************************************************)
(* C8. While one request waits on an embedding call, a vector-store call   *)
(* or a generation call, the scheduler is not blocked: a task of another   *)
(* request that has a step to take can take it.                            *)
(***************************************************************************)
ExternalCallInFlight(t) ==
    \/ rpc[t] \in {"embedding", "searching"}
    \/ rpc[t] = "awaiting" /\ gen[t] = "running" /\ ~timed_out[t]

\* task u is ready to run on the loop: a request to start, or an awaited
\* future that is done
Ready(u) ==
    \/ rpc[u] = "idle"
    \/ rpc[u] = "awaiting" /\ (timed_out[u] \/ gen[u] # "running")

C8_LoopNotBlocked ==
    \A t, u \in Tasks :
        (t # u /\ ExternalCallInFlight(t) /\ Ready(u))
        => ENABLED ((\E r \in Requests : Start(u, r)) \/ Resume(u))

\* a request is inside genai.embed_content while another one is ready
C8_ReadyDuringEmbedding ==
    \E t, u \in Tasks : t # u /\ rpc[t] = "embedding" /\ Ready(u)

(***************************************************************************)
(* C9. When retrieval yields zero chunks, generate_contextual_response     *)
(* never calls the generator and returns the fixed insufficient-context    *)
(* answer with context_used = false and sources = [].                      *)
(***************************************************************************)
C9_NoChunksNoGeneration ==
    \A t \in Tasks :
        (Retrieved(t) /\ ctx[t] = << >>) =>
            /\ gen_calls[t] = 0
            /\ gen[t] = "none"
            /\ rpc[t] = "done"
            /\ resp[t].answer = Answer("insufficient", << >>)
            /\ resp[t].context_used = FALSE
            /\ resp[t].sources = << >>

\* a model is configured and a retrieval over a non-empty scope returned no
\* chunk: every row was below the threshold
C9_NoMatchWithModel ==
    \E t \in Tasks :
        /\ ai_model
        /\ rpc[t] = "done" /\ ctx[t] = << >> /\ infra_failure[t] = "none"
        /\ req[t].agent_id = "a1" /\ req[t].document_id = ""
        /\ \E k \in 1..Len(table) : table[k].chunkId = "c1"

(***************************************************************************)
(* C10. When retrieval yields at least one chunk and the generation call   *)
(* raises, times out, returns an empty text, or no model is configured,    *)
(* generate_contextual_response returns (no error) an answer that contains *)
(* the assembled context text.                                             *)
(***************************************************************************)
GenOutcome(t) ==
    IF gen_calls[t] = 0 THEN "no_model"
    ELSE IF timed_out[t] THEN "timeout"
    ELSE gen[t]

C10_FallbackCarriesContext ==
    \A t \in Tasks :
        ( /\ rpc[t] = "done" /\ ctx[t] # << >>
          /\ GenOutcome(t) \in {"raised", "timeout", "empty", "no_model"} )
        => /\ resp[t].answer.context = PrepareContextText(ctx[t])
           /\ resp[t].answer.context # << >>
           /\ resp[t].context_used = TRUE
           /\ "error" \notin DOMAIN resp[t]

\* a request with context returned after its generation call timed out
C10_ReturnedAfterTimeout ==
    \E t \in Tasks : rpc[t] = "done" /\ ctx[t] # << >> /\ timed_out[t]

(***************************************************************************)
(* C11. generate_contextual_response returns context_used = true, with     *)
(* context_chunks_count equal to the number of retrieved chunks and the    *)
(* context text, exactly when retrieval yielded at least one chunk,        *)
(* whatever the generation call did; context_used = false is returned      *)
(* only when no chunk was retrieved.                                       *)
(***************************************************************************)
C11_ContextUsedIffChunks ==
    \A t \in Tasks :
        rpc[t] = "done" =>
            /\ resp[t].context_used <=> ctx[t] # << >>
            /\ ctx[t] # << >> =>
                  /\ resp[t].context_chunks_count = Len(ctx[t])
                  /\ resp[t].context_text = PrepareContextText(ctx[t])
                  /\ resp[t].sources = ctx[t]

\* one request returned grounded although generate_content raised, the
\* other returned with no chunk retrieved
C11_GroundedFailureAndUngrounded ==
    \E t, u \in Tasks :
        /\ rpc[t] = "done" /\ ctx[t] # << >> /\ gen[t] = "raised" /\ ~timed_out[t]
        /\ rpc[u] = "done" /\ ctx[u] = << >>

(***************************************************************************)
(* The scope of a call, as the claims about the search state it: the       *)
(* embeddings of the chunks of the documents of the owner given, and of    *)
(* the document given.                                                     *)
(***************************************************************************)
ScopeRows(agent_id, document_id) ==
    { k \in 1..Len(table) :
        /\ agent_id # "" => DocAgent[ChunkDoc[table[k].chunkId]] = agent_id
        /\ document_id # "" => ChunkDoc[table[k].chunkId] = document_id }

\* the position in the table of the row a result was made of
RowIndexOf(r) == CHOOSE k \in 1..Len(table) : table[k].chunkId = r.chunk_id

\* results lists, without repetition, the n most similar rows of the set ks
\* of table rows, most similar first
IsTopOf(results, ks, n) ==
    LET returned == { RowIndexOf(results[i]) : i \in 1..Len(results) }
    IN /\ Len(results) = Min(n, Cardinality(ks))
       /\ \A i \in 1..Len(results) :
             /\ \E k \in ks : table[k].chunkId = results[i].chunk_id
             /\ results[i].similarity_score
                    = 10 - Distance(search.query, table[RowIndexOf(results[i])].embedding.val)
       /\ \A i, j \in 1..Len(results) :
             i # j => results[i].chunk_id # results[j].chunk_id
       /\ \A i \in 1..(Len(results) - 1) :
             results[i].similarity_score >= results[i + 1].similarity_score
       /\ \A k \in ks \ returned : \A i \in 1..Len(results) :
             Distance(search.query, table[k].embedding.val)
                 >= 10 - results[i].similarity_score

(***************************************************************************)
(* C12. retrieve_relevant_context(query, owner, document, limit,           *)
(* threshold), when the embedding and the search succeed, returns what a   *)
(* reference would: the stored chunks in the owner/document scope whose    *)
(* similarity is >= threshold, most similar first, truncated to limit.     *)
(* So every returned score is >= threshold, at most limit results are      *)
(* returned, and no in-scope chunk above the threshold is left out while   *)
(* fewer than limit are returned.                                          *)
(***************************************************************************)
AboveThresholdRows(agent_id, document_id, threshold) ==
    { k \in ScopeRows(agent_id, document_id) :
        10 - Distance(search.query, table[k].embedding.val) >= threshold }

C14_OnlyTheDocument ==
    (search.op = "search" /\ search.document_id # "") =>
        \A i \in 1..Len(search.results) :
            /\ search.results[i].document_id = search.document_id
            /\ ChunkDoc[search.results[i].chunk_id] = search.document_id

\* a search scoped to d1 returned a chunk while a chunk of another document
\* of the same agent is nearer to the query
C14_OtherDocumentNearer ==
    /\ search.op = "search" /\ search.document_id = "d1"
    /\ search.agent_id \in {"", "a1"}
    /\ search.results # << >>
    /\ \E k \in 1..Len(table) :
          /\ table[k].chunkId = "c4"
          /\ 10 - Distance(search.query, table[k].embedding.val)
                 > search.results[1].similarity_score

(***************************************************************************)
(* C15. The list search_similar_embeddings returns is sorted by            *)
(* similarity_score descending: results[i].similarity_score >=             *)
(* results[i+1].similarity_score for every i.                              *)
(***************************************************************************)
C15_SortedBySimilarity ==
    search.op = "search" =>
        \A i \in 1..(Len(search.results) - 1) :
            search.results[i].similarity_score
                >= search.results[i + 1].similarity_score

\* a search returned rows of different similarity, from a table that holds
\* the farther row before the nearer one
C15_DifferentScoresReturned ==
    /\ search.op = "search"
    /\ Len(search.results) >= 2
    /\ search.results[1].similarity_score > search.results[2].similarity_score
    /\ RowIndexOf(search.results[1]) > RowIndexOf(search.results[2])

(***************************************************************************)
(* C18. create_vector_tables is an idempotent create-if-absent: a call     *)
(* that reaches the database succeeds and leaves the table and the columns *)
(* that store_embedding writes and search_similar_embeddings reads, also   *)
(* on a database without the table; on a database that has the table and  *)
(* the indexes it succeeds and changes nothing.                            *)
(***************************************************************************)
C18_CreateIfAbsent ==
    (admin_call.op = "create" /\ admin_call.connected) =>
        /\ admin_call.ret
        /\ schema.exists
        /\ StatementColumns \subseteq schema.columns
        /\ (admin_call.before.exists
              /\ {"vector_embeddings_embedding_idx", "vector_embeddings_chunk_id_idx"}
                     \subseteq admin_call.before.indexes)
           => schema = admin_call.before

\* create_vector_tables has run, connected, on a database without the table
C18_CalledWithoutTable ==
    /\ admin_call.op = "create"
    /\ admin_call.connected
    /\ ~admin_call.before.exists

(***************************************************************************)
(* C19. Every embedding in the store has the dimension declared for the    *)
(* embedding model (768): store_embedding with a vector of another length  *)
(* stores nothing and returns False, and such an entry of                  *)
(* store_embeddings_batch is not stored.                                   *)
(***************************************************************************)
C19_StoredDimension ==
    /\ \A k \in 1..Len(table) : table[k].embedding.dim = EmbeddingDim
    /\ \A k \in 1..Len(txn.rows) : txn.rows[k].embedding.dim = EmbeddingDim
    /\ (last_call.op = "single" /\ last_call.dim # EmbeddingDim) => ~last_call.ok

\* store_embedding was given a vector of another length, on a table that
\* holds rows, after a batch in which an INSERT of such a vector had raised
\* (a well-formed entry of the batch was not counted)
C19_WrongLengthRefused ==
    /\ last_call.op = "single" /\ last_call.connected
    /\ last_call.dim = WrongDim
    /\ table # << >>
    /\ Writable(schema)
    /\ batch_wf # batch_counted

(***************************************************************************)
(* C16. delete_embeddings_by_document(d), when it reaches the database,    *)
(* reports success, removes every stored embedding whose chunk is a chunk  *)
(* of document d in "DocumentChunk" and leaves the embeddings of every     *)
(* other document as they were; when d has no embeddings the table is      *)
(* unchanged.                                                              *)
(***************************************************************************)
EmbeddingsOf(rows, present, d) ==
    { k \in 1..Len(rows) : rows[k].chunkId \in present /\ ChunkDoc[rows[k].chunkId] = d }

C16_DeletesTheDocumentOnly ==
    (admin_call.op = "delete" /\ admin_call.connected) =>
        LET d == admin_call.document_id
            before == admin_call.rows_before
            present == admin_call.chunks_before
            Other(row) == ~(row.chunkId \in present /\ ChunkDoc[row.chunkId] = d)
        IN /\ admin_call.ret
           /\ EmbeddingsOf(table, present, d) = {}
           /\ table = SelectSeq(before, Other)
           /\ EmbeddingsOf(before, present, d) = {} => table = before

\* a delete removed the embeddings of a document and left those of another
C16_SomeRemovedSomeLeft ==
    /\ admin_call.op = "delete" /\ admin_call.ret
    /\ table # << >>
    /\ Len(table) + 2 = Len(admin_call.rows_before)

(***************************************************************************)
(* C17. Once a document's chunks have been removed and                     *)
(* delete_embeddings_by_document has been called for it, in either order,  *)
(* no embedding of any of that document's chunks remains in the table.     *)
(***************************************************************************)
C17_NoEmbeddingOfRemovedDocument ==
    \A d \in Docs :
        ( /\ ChunksOfDocument(doc_chunks, d) = {}
          /\ admin_call.op = "delete" /\ admin_call.ret
          /\ admin_call.document_id = d )
        => \A k \in 1..Len(table) : ChunkDoc[table[k].chunkId] # d

\* the chunks of a document that had embeddings were removed first, then
\* delete_embeddings_by_document was called for it and returned True
C17_ChunksRemovedBeforeDelete ==
    \E d \in Docs :
        /\ admin_call.op = "delete" /\ admin_call.ret
        /\ admin_call.document_id = d
        /\ ChunksOfDocument(admin_call.chunks_before, d) = {}
        /\ \E k \in 1..Len(admin_call.rows_before) :
              ChunkDoc[admin_call.rows_before[k].chunkId] = d

(***************************************************************************)
(* C20. Every sentence of the normalized text appears whole in at least    *)
(* one emitted chunk, and the sentences appear across the chunk sequence   *)
(* in their original order: no sentence is split or dropped, a sentence    *)
(* that alone exceeds chunk_size included.                                 *)
(***************************************************************************)
\* the words of the sentence, in a row, are part of the content
ContainsWhole(content, sentence) ==
    \E i \in 0..(Len(content) - Len(sentence)) :
        \A j \in 1..Len(sentence) : content[i + j] = sentence[j]

ChunksHolding(k) ==
    { c \in 1..Len(chunks) : ContainsWhole(chunks[c].content, sentences[k]) }

FirstChunkHolding(k) ==
    CHOOSE c \in ChunksHolding(k) : \A c2 \in ChunksHolding(k) : c <= c2

C20_EverySentenceWhole ==
    cpc = "done" =>
        LET real == { k \in 1..Len(sentences) : sentences[k] # << >> }
        IN /\ \A k \in real : ChunksHolding(k) # {}
           /\ \A k, l \in real : k < l => FirstChunkHolding(k) <= FirstChunkHolding(l)
           /\ \A c \in 1..Len(chunks) : \A i \in 1..(Len(chunks[c].content) - 1) :
                 chunks[c].content[i].id < chunks[c].content[i + 1].id

\* split_text_into_chunks has returned for a text of three sentences of
\* which the last holds the text of a special token, after it had closed a
\* chunk and started the next
C20_SpecialTokenInLastSentence ==
    /\ cpc = "done"
    /\ Len(sentences) >= 3
    /\ special_at = Len(sentences)
    /\ chunk_index >= 1
    /\ current_chunk # << >>

(***************************************************************************)
(* C21. For every pair of adjacent chunks produced from one text with      *)
(* chunk_overlap > 0, the later chunk starts with trailing words of the    *)
(* earlier one: the two share at least one word.                           *)
(***************************************************************************)
\* the first n words of b are the last n words of a
StartsWithTailOf(b, a, n) ==
    /\ n <= Len(a)
    /\ n <= Len(b)
    /\ \A j \in 1..n : b[j] = a[Len(a) - n + j]

C21_AdjacentChunksOverlap ==
    chunk_overlap > 0 =>
        \A i \in 1..(Len(chunks) - 1) :
            \E n \in 1..Len(chunks[i].content) :
                StartsWithTailOf(chunks[i + 1].content, chunks[i].content, n)

\* a text went to three chunks with an overlap of one word
C21_ThreeChunksOneWordOverlap ==
    /\ cpc = "done"
    /\ Len(chunks) >= 3
    /\ chunk_overlap = 4

(***************************************************************************)
(* C26. When a chunk is closed, the overlap seed put before the next       *)
(* sentence consists of the trailing words of the closed chunk and has at  *)
(* most floor(chunk_overlap / 4) words, for every chunk_overlap >= 0, the  *)
(* values below 4 included.                                                *)
(***************************************************************************)
C26_SeedWithinOverlap ==
    (chunk_index >= 1 /\ Len(chunks) >= chunk_index) =>
        /\ Len(overlap_text) <= chunk_overlap \div 4
        /\ StartsWithTailOf(overlap_text, chunks[chunk_index].content,
                            Len(overlap_text))

\* a chunk was closed with a chunk_overlap below 4 and above 0
C26_ClosedWithSmallOverlap ==
    /\ chunk_index >= 1
    /\ Len(chunks) >= chunk_index
    /\ chunk_overlap = 3

(***************************************************************************)
(* C25. When two or more in-scope embeddings have the same similarity to   *)
(* the query, search_similar_embeddings returns them in the order in which *)
(* they were inserted into the store: of two results of equal              *)
(* similarity_score the one listed first is the one stored first.          *)
(***************************************************************************)
C25_TiesInInsertionOrder ==
    search.op = "search" =>
        \A i, j \in 1..Len(search.results) :
            (/\ i < j
             /\ search.results[i].similarity_score
                    = search.results[j].similarity_score)
                => RowIndexOf(search.results[i]) < RowIndexOf(search.results[j])

\* a search returned two results of the same similarity
C25_TwoResultsOfEqualScore ==
    /\ search.op = "search"
    /\ Len(search.results) >= 2
    /\ search.results[1].similarity_score = search.results[2].similarity_score

(***************************************************************************)
(* C28. retrieve_relevant_context and search_documents called for agent A  *)
(* never return a chunk whose document is owned by an agent other than A,  *)
(* for every value of the agent_id argument, the empty string included.    *)
(***************************************************************************)
OwnerOfChunk(c) == DocAgent[ChunkDoc[c]]

C28_OnlyTheAgentsChunks ==
    /\ search.op = "retrieve" =>
           \A i \in 1..Len(search.results) :
               OwnerOfChunk(search.results[i].chunk_id) = search.agent_id
    /\ search.op = "documents" =>
           \A i \in 1..Len(search.results) :
               OwnerOfChunk(search.results[i].content) = search.agent_id

\* a call made with the empty agent_id returned chunks of two agents
C28_EmptyAgentSeesTwoAgents ==
    /\ search.op \in {"retrieve", "documents"}
    /\ search.agent_id = ""
    /\ Len(search.results) >= 2
    /\ \E i, j \in 1..Len(search.results) :
          LET Chunk(r) == IF search.op = "retrieve" THEN r.chunk_id ELSE r.content
          IN OwnerOfChunk(Chunk(search.results[i]))
                 # OwnerOfChunk(Chunk(search.results[j]))

(***************************************************************************)
(* C27. For an input of more than one line, clean_text removes every line  *)
(* that consists only of digits and keeps the text of the other lines: the *)
(* words of the result are the words of the lines that are not digits      *)
(* only, in their order, less the characters outside the class kept.       *)
(***************************************************************************)
\* the lines of t, the newlines between them left out
RECURSIVE LinesFrom(_, _, _)
LinesFrom(t, p, cur) ==
    IF p > Len(t) THEN <<cur>>
    ELSE IF t[p] = "NL" THEN <<cur>> \o LinesFrom(t, p + 1, << >>)
    ELSE LinesFrom(t, p + 1, Append(cur, t[p]))
Lines(t) == LinesFrom(t, 1, << >>)

\* a line of digits, blanks around them allowed
IsDigitLine(l) == Strip(l) # << >> /\ \A k \in 1..Len(Strip(l)) : Strip(l)[k] \in DigitChars

\* the words of t: its maximal runs of characters other than whitespace
RECURSIVE WordsFrom(_, _, _)
WordsFrom(t, p, cur) ==
    LET done == IF cur = << >> THEN << >> ELSE <<cur>>
    IN IF p > Len(t) THEN done
       ELSE IF t[p] \in SpaceChars THEN done \o WordsFrom(t, p + 1, << >>)
       ELSE WordsFrom(t, p + 1, Append(cur, t[p]))
Words(t) == WordsFrom(t, 1, << >>)

\* the words of the lines that are not digits only
RECURSIVE KeptWords(_)
KeptWords(ls) ==
    IF ls = << >> THEN << >>
    ELSE (IF IsDigitLine(ls[1]) THEN << >> ELSE Words(DropUnsafe(ls[1])))
             \o KeptWords(Tail(ls))

C27_DigitLinesRemoved ==
    (clean_pc = "done" /\ Len(Lines(raw_text)) > 1) =>
        Words(cleaned_text) = KeptWords(Lines(raw_text))

\* clean_text returned for a text of a line with a letter and a line of
\* digits only
C27_DigitLineAmongOthers ==
    /\ clean_pc = "done"
    /\ \E i, j \in 1..Len(Lines(raw_text)) :
          /\ IsDigitLine(Lines(raw_text)[i])
          /\ \E k \in 1..Len(Lines(raw_text)[j]) : Lines(raw_text)[j][k] = "a"

(***************************************************************************)
(* C22. Every vector-store operation closes the connection it opened on    *)
(* every exit path, normal return, early return and exception alike: when  *)
(* no operation is in progress no connection is open, and the connection   *)
(* of the operation that returned last, if it opened one, is closed.       *)
(***************************************************************************)
C22_NoConnectionLeftOpen ==
    conn_pc = "idle" =>
        /\ open_conns = 0
        /\ conn # "open"

\* an operation has returned through an exception of its body and another
\* through the early return
C22_ReturnedByEveryPath ==
    /\ conn_pc = "idle"
    /\ \E i, j \in 1..Len(conn_log) :
          /\ conn_log[i].exit = "exception"
          /\ conn_log[j].exit = "early_return"

(***************************************************************************)
(* C23. Every session created by create_practice_session has exactly 10    *)
(* questions and a time limit of 120 seconds, whether the questions come   *)
(* from the AI model or from the fallback question bank.                   *)
(***************************************************************************)
C23_TenQuestionsTwoMinutes ==
    /\ \A sid \in DOMAIN active_sessions :
          /\ Len(active_sessions[sid].questions) = QuestionCount
          /\ active_sessions[sid].time_limit = TimeLimit
    /\ (reply.op = "create" /\ reply.status = 200) =>
          reply.questions = QuestionCount /\ reply.time_limit = TimeLimit

\* a session was created for a topic of the fallback bank and holds the
\* questions of the bank
C23_SessionFromFallbackBank ==
    /\ reply.op = "create" /\ reply.status = 200
    /\ reply.session_id \in DOMAIN active_sessions
    /\ active_sessions[reply.session_id].questions
           = generate_fallback_questions(reply.topic, QuestionCount)

(***************************************************************************)
(* C24. For every existing session and every sequence of answers           *)
(* submit_answer accepted for it, complete_session returns a result rather *)
(* than an error and marks the session completed, which is the completed   *)
(* value get_session_status reports from then on.                          *)
(***************************************************************************)
C24_CompleteReturnsResult ==
    (reply.op = "complete" /\ reply.status # 404) =>
        /\ reply.status = 200
        /\ reply.session_id \in DOMAIN active_sessions
        /\ active_sessions[reply.session_id].completed

\* complete_session was called for a session that holds an accepted answer
\* which is neither the correct one nor an index of the options
C24_CompletedWithOutOfRangeAnswer ==
    /\ reply.op = "complete"
    /\ reply.session_id \in DOMAIN active_sessions
    /\ LET session == active_sessions[reply.session_id]
       IN \E i \in Answered(session) \ AnsweredRight(session) :
              IndexRaises(session.answers[session.questions[i].id])

(***************************************************************************)
(* C29. create_practice_session with an exam type or topic that is not in  *)
(* the prompt tables fails with the 400 'Invalid exam type or topic' error *)
(* raised by generate_questions and adds no session to active_sessions.    *)
(***************************************************************************)
C29_InvalidRequestIs400 ==
    (/\ reply.op = "create"
     /\ ~(HasExamPrompt(reply.exam_type) /\ HasTopicPrompt(reply.topic))) =>
        /\ reply.status = 400
        /\ reply.detail = "Invalid exam type or topic"
        /\ reply.added = {}

\* a session was asked for with a topic outside the prompt tables, and none
\* was added
C29_InvalidTopicRequested ==
    /\ reply.op = "create"
    /\ reply.topic = "history"
    /\ reply.added = {}

(***************************************************************************)
(* C30. Once complete_session has returned for a session, the session's    *)
(* recorded answers no longer change: a later submit_answer for it is      *)
(* rejected, and calling complete_session again returns the same           *)
(* correct_answers and wrong_answers.                                      *)
(***************************************************************************)
C30_FrozenAfterCompletion ==
    /\ (reply.op = "answer" /\ reply.was_completed) => reply.status # 200
    /\ (reply.op = "complete" /\ reply.status = 200) =>
          /\ reply.correct_answers = first_result[reply.session_id].correct_answers
          /\ reply.wrong_answers = first_result[reply.session_id].wrong_answers

\* complete_session returned a result for a session whose answers were
\* submitted to again after its first completion
C30_CompletedAgainAfterAnswer ==
    /\ reply.op = "complete" /\ reply.status = 200
    /\ reply.was_completed
    /\ \E q \in DOMAIN active_sessions[reply.session_id].answers :
          /\ active_sessions[reply.session_id].answers[q]
                 # active_sessions[reply.session_id].questions[q].correct_answer
          /\ q \notin { first_result[reply.session_id].wrong_answers[k] :
                          k \in 1..Len(first_result[reply.session_id].wrong_answers) }

====
